---- MODULE Spec2Model ----
(***************************************************************************)
(* The CnEVData backfill orchestrator (scraper/backfill_cnevdata.py) as a  *)
(* state machine: one main thread walking the page loop of backfill_pages, *)
(* the article worker pool, the OCR worker pool, the checkpoint file, the  *)
(* run statistics, and the calls made to the collector, the vision         *)
(* capability and the submission layer.                                    *)
(*                                                                         *)
(* An article is identified by its URL (a number). What the pure text      *)
(* stages (ArticleClassifier.classify, TitleParser.parse,                  *)
(* IndustryDataExtractor.extract) and the external services answer for an  *)
(* article is fixed per URL by ArticleTable, one row per kind of article   *)
(* the orchestrator tells apart.                                           *)
(*                                                                         *)
(* Not modelled: disk errors inside save_checkpoint (caught and logged by  *)
(* the code) and signals other than the KeyboardInterrupt the code handles.*)
(***************************************************************************)
EXTENDS Integers, Sequences, FiniteSets, TLC

\* ------------------------------------------------------------- bounds
\* Pages of the site (BACKFILL_CONFIG["total_pages"], 120 in config.py).
TotalPages == 2
\* Articles one fetch of a page returns at most.
MaxArticles == 2
\* Distinct articles the site serves during one behaviour.
SiteSize == 2
\* Process runs: the first, then re-runs with --resume.
MaxRuns == 2
\* Runs, counted from the first, during which the operator may interrupt.
InterruptRuns == 1

\* ------------------------------------------------- program constants
\* processed_urls[-1000:] in save_checkpoint.
KeepLast == 1000
\* BACKFILL_CONFIG["ocr_concurrency"].
OcrConcurrency == 5

\* ------------------------------------------------------------ inputs
None == "None"

\* One row per URL: what the collector's classifier put on the article
\* (kind, needs_ocr), whether it has a preview image, what
\* source.extract_metrics returns (none, one brand metric, one INDUSTRY
\* metric), what IndustryDataExtractor.extract returns (ok, stub = success
\* with _needs_ocr, fail), and what the external calls answer for it.
Art(kind, needs_ocr, image, metrics, extract, accept, ocr) ==
    [kind |-> kind, needs_ocr |-> needs_ocr, preview_image |-> image,
     metrics |-> metrics, extract |-> extract, accept |-> accept, ocr |-> ocr]

ArticleTable ==
    << Art("rankings", TRUE,  TRUE,  "none",     "stub", TRUE,  "rows"),
       Art("specs",    TRUE,  TRUE,  "none",     "none", TRUE,  "error"),
       Art("chart",    TRUE,  TRUE,  "none",     "ok",   FALSE, "rows"),
       Art("chart",    FALSE, TRUE,  "industry", "ok",   TRUE,  "rows"),
       Art("brand",    FALSE, FALSE, "brand",    "none", FALSE, "rows"),
       Art("trend",    TRUE,  TRUE,  "none",     "fail", TRUE,  "rows"),
       Art("rankings", TRUE,  TRUE,  "none",     "stub", TRUE,  "nonjson"),
       Art("specs",    TRUE,  TRUE,  "none",     "none", TRUE,  "empty"),
       Art("skip",     FALSE, TRUE,  "none",     "none", TRUE,  "rows") >>

Urls == 1..Len(ArticleTable)
Pages == 1..TotalPages

\* classification.ocr_data_type, copied onto the article by the collector.
OcrDataType(u) ==
    CASE ArticleTable[u].kind = "rankings" -> "rankings"
      [] ArticleTable[u].kind = "specs"    -> "specs"
      [] ArticleTable[u].kind = "chart"    -> "chart"
      [] ArticleTable[u].kind = "trend"    -> "trend"
      [] OTHER                             -> None

\* classification.target_table.
TargetTable(u) ==
    CASE ArticleTable[u].kind = "rankings" -> "AutomakerRankings"
      [] ArticleTable[u].kind = "chart"    -> "ChinaDealerInventoryFactor"
      [] ArticleTable[u].kind = "trend"    -> "NevSalesSummary"
      [] ArticleTable[u].kind = "specs"    -> "VehicleSpec"
      [] ArticleTable[u].kind = "brand"    -> "EVMetric"
      [] OTHER                             -> None

IndustryTables == {"AutomakerRankings", "ChinaDealerInventoryFactor", "NevSalesSummary"}

\* EVPlatformAPI.is_industry_table.
IsIndustryTable(t) == t \in IndustryTables

\* The OCRResult extract_from_url_sync builds for each answer of the vision
\* capability: tokens are those of the response, and stay 0 when the call
\* raised.
OcrResult(u) ==
    CASE ArticleTable[u].ocr = "rows"    -> [success |-> TRUE,  rows |-> 1, input_tokens |-> 1, output_tokens |-> 1]
      [] ArticleTable[u].ocr = "empty"   -> [success |-> TRUE,  rows |-> 0, input_tokens |-> 1, output_tokens |-> 1]
      [] ArticleTable[u].ocr = "nonjson" -> [success |-> FALSE, rows |-> 0, input_tokens |-> 1, output_tokens |-> 1]
      [] OTHER                           -> [success |-> FALSE, rows |-> 0, input_tokens |-> 0, output_tokens |-> 0]

\* ------------------------------------------------------------- state
VARIABLES
    args,           \* parsed command line of the current run
    site,           \* the articles the site can serve
    run,            \* number of the current process run
    file,           \* content of the checkpoint file
    checkpoint,     \* what load_checkpoint returned to main
    pc,             \* position of the main thread
    page, start_page, end_page,
    enable_ocr,
    processed_set,
    ocr_queue,
    current_batch,
    batch_num,
    tasks,          \* the article futures of the current page
    ocr_tasks,      \* the OCR futures of the current page
    stats,
    interrupted,    \* where the first KeyboardInterrupt of this run was raised
    late_interrupt, \* one was raised inside the finally block
    prior,          \* how the last run that exited had ended
    fetched,        \* what fetch_article_list returned, page by page, this run
    handed,         \* url -> times process_single_article was called, this run
    posted,         \* urls posted to the EVMetric endpoint, this run
    submitted,      \* urls passed to api_client.submit, this run
    classified,     \* urls counted in industry_classified, this run
    extracted,      \* urls counted in industry_extracted, this run
    vision_log,     \* <<page, url>> passed to the vision capability, this run
    pages_done,     \* pages whose loop body has finished, this run
    final_writes,   \* checkpoint writes completed after the loop was left
    delay,          \* the sleep the loop took last
    input,          \* arguments of the function under study, None in a backfill
    output          \* what the function has produced so far, None in a backfill

vars == << args, site, run, file, checkpoint, pc, page, start_page, end_page,
           enable_ocr, processed_set, ocr_queue, current_batch, batch_num,
           tasks, ocr_tasks, stats, interrupted, late_interrupt, prior,
           fetched, handed, posted, submitted, classified, extracted,
           vision_log, pages_done, final_writes, delay, input, output >>

ghost == << prior, fetched, handed, posted, submitted, classified, extracted,
            vision_log, pages_done, final_writes, delay >>

\* ------------------------------------------------------ BackfillStats
StatsInit ==
    [pages_processed |-> 0, articles_found |-> 0, articles_processed |-> 0,
     metrics_extracted |-> 0, metrics_submitted |-> 0, metrics_failed |-> 0,
     ocr_needed |-> 0, ocr_processed |-> 0,
     industry_classified |-> 0, industry_extracted |-> 0,
     industry_submitted |-> 0, industry_failed |-> 0,
     industry_by_table |-> [t \in IndustryTables |-> 0],
     errors |-> << >>]

increment(s, field, amount) == [s EXCEPT ![field] = @ + amount]

increment_table(s, table, amount) == [s EXCEPT !.industry_by_table[table] = @ + amount]

\* ---------------------------------------------------------- helpers
SeqToSet(s) == {s[i] : i \in DOMAIN s}

SeqsUpTo(S, n) == UNION {[1..k -> S] : k \in 0..n}

Min(a, b) == IF a < b THEN a ELSE b

\* The checkpoint file: absent, truncated (opened for writing and not yet
\* written: no valid JSON), or holding a complete checkpoint.
FileAbsent == [st |-> "absent", last_page |-> 0, processed_urls |-> {}]

FileTruncated == [st |-> "truncated", last_page |-> 0, processed_urls |-> {}]

\* What load_checkpoint returns for None.
NoCheckpoint == [st |-> "none", last_page |-> 0, processed_urls |-> {}]

\* A load_checkpoint that never finds a checkpoint.
LoadNothing == NoCheckpoint

\* load_checkpoint: None when the file is absent or is not valid JSON.
load_checkpoint == IF file.st = "complete" THEN file ELSE NoCheckpoint

\* The subsets of S that have k elements.
RECURSIVE Subsets(_, _)
Subsets(S, k) ==
    IF k = 0 THEN {{}}
    ELSE UNION {{d \cup {x} : x \in S \ d} : d \in Subsets(S, k - 1)}

\* The checkpoint save_checkpoint builds: list(processed_set)[-1000:] keeps
\* all URLs when there are at most 1000, else all but some of them, 1000 being
\* kept (a set has no order of insertion, so the list may begin with any).
Checkpoints(last_page, urls) ==
    {[st |-> "complete", last_page |-> last_page, processed_urls |-> urls \ dropped] :
        dropped \in Subsets(urls, Cardinality(urls) - Min(Cardinality(urls), KeepLast))}

\* ------------------------------------------------------------- Init
\* The command lines of the first run: --dry-run or not, --concurrency 1 or
\* 2, and --pages 1-1 with --batch-size 1 or --pages 1-<last> with
\* --batch-size 1 or 2, all with --enable-ocr; and one without it.
Configs ==
    {c \in [dry_run : BOOLEAN, enable_ocr : BOOLEAN, concurrency : {1, 2},
            batch_size : {1, 2}, resume : {FALSE},
            pages : {<<1, 1>>, <<1, TotalPages>>}] :
        /\ c.pages = <<1, 1>> => c.batch_size = 1
        /\ c.enable_ocr \/ (~c.dry_run /\ c.concurrency = 2 /\ c.batch_size = 1
                            /\ c.pages = <<1, TotalPages>>)}

Sites == {s \in SUBSET Urls : Cardinality(s) = SiteSize}

Start ==
    /\ args \in Configs
    /\ site \in Sites
    /\ run = 1
    /\ file = FileAbsent
    /\ checkpoint = NoCheckpoint
    /\ pc = "main"
    /\ page = 0 /\ start_page = 0 /\ end_page = 0
    /\ enable_ocr = FALSE
    /\ processed_set = {}
    /\ ocr_queue = << >>
    /\ current_batch = << >>
    /\ batch_num = 0
    /\ tasks = << >>
    /\ ocr_tasks = << >>
    /\ stats = StatsInit
    /\ interrupted = None
    /\ late_interrupt = FALSE
    /\ prior = None
    /\ fetched = << >>
    /\ handed = [u \in Urls |-> 0]
    /\ posted = {}
    /\ submitted = {}
    /\ classified = {}
    /\ extracted = {}
    /\ vision_log = {}
    /\ pages_done = {}
    /\ final_writes = 0
    /\ delay = None

Init ==
    /\ Start
    /\ input = None
    /\ output = None

\* ------------------------------------------------ main, lines 627-656
\* Parses the page range (from the checkpoint with --resume) and enters
\* backfill_pages (set-up, lines 465-494; ImageOCR() is taken to construct).
Main ==
    /\ pc = "main"
    /\ LET cp == IF args.resume THEN load_checkpoint ELSE NoCheckpoint
           sp == IF args.resume
                 THEN (IF cp.st = "complete" THEN cp.last_page + 1 ELSE 1)
                 ELSE args.pages[1]
           ep == IF args.resume THEN TotalPages ELSE args.pages[2]
       IN  /\ checkpoint' = cp
           /\ start_page' = sp
           /\ end_page' = ep
           /\ page' = sp
           /\ pc' = IF sp <= ep THEN "fetch" ELSE "finally"
    /\ enable_ocr' = args.enable_ocr
    /\ processed_set' = {}
    /\ stats' = StatsInit
    /\ current_batch' = << >>
    /\ batch_num' = 0
    /\ ocr_queue' = << >>
    /\ UNCHANGED << args, site, input, output, run, file, tasks, ocr_tasks, interrupted,
                    late_interrupt, ghost >>

\* ------------------------------------------- process_ocr_batch, entry
ChartsEligible == {"rankings", "specs", "chart"}

OCR_ELIGIBLE_TYPES == {"rankings", "specs"}

\* ocr_articles: the queued articles whose ocr_data_type is eligible.
OcrArticlesUnfiltered(queue) == queue

OcrArticles(queue) == SelectSeq(queue, LAMBDA u : OcrDataType(u) \in OCR_ELIGIBLE_TYPES)

\* Lines 541-544 with lines 316-344: what the main thread does once the
\* articles of the page are through: nothing when the queue is empty, else
\* process_ocr_batch, which returns at once when no queued article is
\* eligible and otherwise submits one vision task per eligible article.
AfterArticles(queue, p) ==
    IF queue = << >> \/ OcrArticles(queue) = << >>
    THEN [pc |-> "page_end", ocr_queue |-> << >>, ocr_tasks |-> << >>]
    ELSE [pc |-> "ocr", ocr_queue |-> queue,
          ocr_tasks |-> [i \in 1..Len(OcrArticles(queue)) |->
                            [url |-> OcrArticles(queue)[i], page |-> p,
                             st |-> "pending", tracked |-> 0]]]

\* ------------------------------------------------ fetch, lines 499-508
\* Deduplicate against already-processed URLs.
NewArticles(articles, seen) == SelectSeq(articles, LAMBDA u : u \notin seen)

\* fetch_article_list returns the articles of the page, or [] when the
\* request failed; the orchestrator counts them and keeps the new ones.
Fetch ==
    /\ pc = "fetch"
    /\ \E articles \in SeqsUpTo(site, MaxArticles) :
        LET new_articles == NewArticles(articles, processed_set)
            nxt == AfterArticles(ocr_queue, page)
        IN  /\ stats' = increment(increment(stats, "articles_found", Len(articles)),
                                  "pages_processed", 1)
            /\ IF new_articles = << >>
               THEN /\ tasks' = << >>
                    /\ pc' = nxt.pc
                    /\ ocr_queue' = nxt.ocr_queue
                    /\ ocr_tasks' = nxt.ocr_tasks
               ELSE /\ tasks' = [i \in 1..Len(new_articles) |->
                                   [url |-> new_articles[i], page |-> page,
                                    st |-> "pending", ind |-> FALSE, res |-> FALSE]]
                    /\ pc' = "articles"
                    /\ ocr_tasks' = << >>
                    /\ UNCHANGED ocr_queue
            /\ fetched' = Append(fetched, articles)
    /\ UNCHANGED << args, site, input, output, run, file, checkpoint, page, start_page, end_page,
                    enable_ocr, processed_set, current_batch, batch_num,
                    interrupted, late_interrupt, prior, handed, posted, submitted,
                    classified, extracted, vision_log, pages_done, final_writes,
                    delay >>

\* ------------------------------------------- process_single_article
\* submit_metrics_to_api for the brand metric of u: nothing is posted in a
\* dry run; else one post, counted as submitted or failed.
SubmitIgnoresDryRun(s, u, dry_run) ==
    [stats |-> increment(increment(s, "metrics_submitted",
                                   IF ArticleTable[u].accept THEN 1 ELSE 0),
                         "metrics_failed",
                         IF ArticleTable[u].accept THEN 0 ELSE 1),
     post |-> TRUE]

submit_metrics_to_api(s, u, dry_run) ==
    IF dry_run
    THEN [stats |-> s, post |-> FALSE]
    ELSE [stats |-> increment(increment(s, "metrics_submitted",
                                        IF ArticleTable[u].accept THEN 1 ELSE 0),
                              "metrics_failed",
                              IF ArticleTable[u].accept THEN 0 ELSE 1),
          post |-> TRUE]

\* Lines 396-411: extract_metrics, then the brand metrics are submitted.
ExtractMetrics(s, u, dry_run) ==
    IF ArticleTable[u].metrics = "none"
    THEN [stats |-> s, post |-> FALSE]
    ELSE IF ArticleTable[u].metrics = "brand"
         THEN submit_metrics_to_api(increment(s, "metrics_extracted", 1), u, dry_run)
         ELSE [stats |-> increment(s, "metrics_extracted", 1), post |-> FALSE]

\* process_industry_data without the _needs_ocr test of lines 277-279.
StubIsSubmitted(s, u, dry_run) ==
    IF TargetTable(u) = None \/ ~IsIndustryTable(TargetTable(u))
    THEN [stats |-> s, cls |-> FALSE, ext |-> FALSE, call |-> FALSE, out |-> "false"]
    ELSE IF ArticleTable[u].extract \notin {"ok", "stub"}
    THEN [stats |-> increment(s, "industry_classified", 1),
          cls |-> TRUE, ext |-> FALSE, call |-> FALSE, out |-> "false"]
    ELSE IF dry_run
    THEN [stats |-> increment(increment(s, "industry_classified", 1), "industry_extracted", 1),
          cls |-> TRUE, ext |-> TRUE, call |-> FALSE, out |-> "true"]
    ELSE IF ArticleTable[u].accept
    THEN [stats |-> increment(increment(increment(s, "industry_classified", 1),
                                        "industry_extracted", 1), "industry_submitted", 1),
          cls |-> TRUE, ext |-> TRUE, call |-> TRUE, out |-> "table"]
    ELSE [stats |-> increment(increment(increment(s, "industry_classified", 1),
                                        "industry_extracted", 1), "industry_failed", 1),
          cls |-> TRUE, ext |-> TRUE, call |-> TRUE, out |-> "false"]

\* process_industry_data up to and including the first counter that follows
\* the submission. out is the value returned, or "table" when the submission
\* succeeded and increment_table is still to come.
process_industry_data(s, u, dry_run) ==
    IF TargetTable(u) = None \/ ~IsIndustryTable(TargetTable(u))
    THEN [stats |-> s, cls |-> FALSE, ext |-> FALSE, call |-> FALSE, out |-> "false"]
    ELSE IF ArticleTable[u].extract \notin {"ok", "stub"}
    THEN [stats |-> increment(s, "industry_classified", 1),
          cls |-> TRUE, ext |-> FALSE, call |-> FALSE, out |-> "false"]
    ELSE IF ArticleTable[u].extract = "stub"
    THEN [stats |-> increment(increment(s, "industry_classified", 1), "industry_extracted", 1),
          cls |-> TRUE, ext |-> TRUE, call |-> FALSE, out |-> "false"]
    ELSE IF dry_run
    THEN [stats |-> increment(increment(s, "industry_classified", 1), "industry_extracted", 1),
          cls |-> TRUE, ext |-> TRUE, call |-> FALSE, out |-> "true"]
    ELSE IF ArticleTable[u].accept
    THEN [stats |-> increment(increment(increment(s, "industry_classified", 1),
                                        "industry_extracted", 1), "industry_submitted", 1),
          cls |-> TRUE, ext |-> TRUE, call |-> TRUE, out |-> "table"]
    ELSE [stats |-> increment(increment(increment(s, "industry_classified", 1),
                                        "industry_extracted", 1), "industry_failed", 1),
          cls |-> TRUE, ext |-> TRUE, call |-> TRUE, out |-> "false"]

\* Lines 423-429: the article goes to the OCR queue when it gave neither
\* metrics nor industry data, is flagged needs_ocr, has a preview image and
\* OCR is enabled.
QueueForOcr(u, industry_extracted, ocr_on) ==
    /\ ArticleTable[u].metrics = "none"
    /\ ~industry_extracted
    /\ ArticleTable[u].needs_ocr
    /\ ocr_on
    /\ ArticleTable[u].preview_image

\* First part of process_single_article for task i: lines 392-421, ending
\* inside process_industry_data after the submission has been counted.
StartArticle(i) ==
    /\ tasks[i].st = "pending"
    /\ LET u == tasks[i].url
           m == ExtractMetrics(stats, u, args.dry_run)
           d == process_industry_data(m.stats, u, args.dry_run)
       IN  /\ stats' = d.stats
           /\ handed' = [handed EXCEPT ![u] = @ + 1]
           /\ posted' = IF m.post THEN posted \cup {u} ELSE posted
           /\ submitted' = IF d.call THEN submitted \cup {u} ELSE submitted
           /\ classified' = IF d.cls THEN classified \cup {u} ELSE classified
           /\ extracted' = IF d.ext THEN extracted \cup {u} ELSE extracted
           /\ tasks' = [tasks EXCEPT ![i].st = IF d.out = "table" THEN "table" ELSE "decide",
                                     ![i].ind = (d.out = "true")]

\* Lines 288-290: increment_table after a successful submission; the
\* function then returns True.
TableArticle(i) ==
    /\ tasks[i].st = "table"
    /\ stats' = increment_table(stats, TargetTable(tasks[i].url), 1)
    /\ tasks' = [tasks EXCEPT ![i].st = "decide", ![i].ind = TRUE]

\* Lines 423-434: the OCR decision, articles_processed, the return value.
FinishedStats(s, u, industry_extracted, ocr_on) ==
    increment(IF QueueForOcr(u, industry_extracted, ocr_on)
              THEN increment(s, "ocr_needed", 1) ELSE s,
              "articles_processed", 1)

\* ---------------------------------- sequential path, lines 509-518
SeqTurn(i) ==
    /\ pc = "articles"
    /\ args.concurrency <= 1
    /\ i \in DOMAIN tasks
    /\ \A j \in 1..(i - 1) : tasks[j].st = "collected"

SeqStart ==
    \E i \in DOMAIN tasks :
        /\ SeqTurn(i)
        /\ StartArticle(i)
        /\ UNCHANGED << args, site, input, output, run, file, checkpoint, pc, page, start_page,
                        end_page, enable_ocr, processed_set, ocr_queue, current_batch,
                        batch_num, ocr_tasks, interrupted, late_interrupt, prior,
                        fetched, vision_log, pages_done, final_writes, delay >>

SeqTable ==
    \E i \in DOMAIN tasks :
        /\ SeqTurn(i)
        /\ TableArticle(i)
        /\ UNCHANGED << args, site, input, output, run, file, checkpoint, pc, page, start_page,
                        end_page, enable_ocr, processed_set, ocr_queue, current_batch,
                        batch_num, ocr_tasks, interrupted, late_interrupt, ghost >>

\* What the loop does with a result: queue it for OCR, mark the URL seen.
CollectQueue(queue, u, res) == IF res THEN Append(queue, u) ELSE queue

CollectSeen(seen, u) == seen \cup {u}

\* The end of process_single_article and lines 516-518; after the last
\* article, the OCR batch of the page.
SeqFinish ==
    \E i \in DOMAIN tasks :
        /\ SeqTurn(i)
        /\ tasks[i].st = "decide"
        /\ LET u == tasks[i].url
               res == QueueForOcr(u, tasks[i].ind, enable_ocr)
               queue == CollectQueue(ocr_queue, u, res)
               nxt == AfterArticles(queue, page)
           IN  /\ stats' = FinishedStats(stats, u, tasks[i].ind, enable_ocr)
               /\ tasks' = [tasks EXCEPT ![i].st = "collected", ![i].res = res]
               /\ processed_set' = CollectSeen(processed_set, u)
               /\ IF i = Len(tasks)
                  THEN /\ pc' = nxt.pc
                       /\ ocr_queue' = nxt.ocr_queue
                       /\ ocr_tasks' = nxt.ocr_tasks
                  ELSE /\ ocr_queue' = queue
                       /\ UNCHANGED << pc, ocr_tasks >>
        /\ UNCHANGED << args, site, input, output, run, file, checkpoint, page, start_page,
                        end_page, enable_ocr, current_batch, batch_num,
                        interrupted, late_interrupt, ghost >>

\* ------------------------------------ parallel path, lines 519-539
Running(ts) == {j \in DOMAIN ts : ts[j].st \in {"table", "decide"}}

\* A worker of the pool is free, and the executor is alive: the main thread
\* is in the with block, or is leaving it and waits for the workers.
WorkerTurn ==
    /\ pc \in {"articles", "drain"}
    /\ args.concurrency > 1

WorkerStart ==
    \E i \in DOMAIN tasks :
        /\ WorkerTurn
        /\ Cardinality(Running(tasks)) < args.concurrency
        /\ StartArticle(i)
        /\ UNCHANGED << args, site, input, output, run, file, checkpoint, pc, page, start_page,
                        end_page, enable_ocr, processed_set, ocr_queue, current_batch,
                        batch_num, ocr_tasks, interrupted, late_interrupt, prior,
                        fetched, vision_log, pages_done, final_writes, delay >>

WorkerTable ==
    \E i \in DOMAIN tasks :
        /\ WorkerTurn
        /\ TableArticle(i)
        /\ UNCHANGED << args, site, input, output, run, file, checkpoint, pc, page, start_page,
                        end_page, enable_ocr, processed_set, ocr_queue, current_batch,
                        batch_num, ocr_tasks, interrupted, late_interrupt, ghost >>

WorkerFinish ==
    \E i \in DOMAIN tasks :
        /\ WorkerTurn
        /\ tasks[i].st = "decide"
        /\ stats' = FinishedStats(stats, tasks[i].url, tasks[i].ind, enable_ocr)
        /\ tasks' = [tasks EXCEPT ![i].st = "done",
                                  ![i].res = QueueForOcr(tasks[i].url, tasks[i].ind, enable_ocr)]
        /\ UNCHANGED << args, site, input, output, run, file, checkpoint, pc, page, start_page,
                        end_page, enable_ocr, processed_set, ocr_queue, current_batch,
                        batch_num, ocr_tasks, interrupted, late_interrupt, ghost >>

\* future.result() in the as_completed loop, line 533: what the task returned.
FutureResultLost(t) == FALSE

FutureResult(t) == t.res

\* as_completed is exhausted when every future has been yielded.
AnyCollected(ts) == \E j \in DOMAIN ts : ts[j].st = "collected"

AllCollected(ts) == \A j \in DOMAIN ts : ts[j].st = "collected"

\* One turn of the as_completed loop, lines 530-539; after the last future,
\* the executor is left and the OCR batch of the page follows.
Collect ==
    \E i \in DOMAIN tasks :
        /\ pc = "articles"
        /\ args.concurrency > 1
        /\ tasks[i].st = "done"
        /\ LET u == tasks[i].url
               queue == CollectQueue(ocr_queue, u, FutureResult(tasks[i]))
               nxt == AfterArticles(queue, page)
               ts == [tasks EXCEPT ![i].st = "collected"]
           IN  /\ tasks' = ts
               /\ processed_set' = CollectSeen(processed_set, u)
               /\ IF AllCollected(ts)
                  THEN /\ pc' = nxt.pc
                       /\ ocr_queue' = nxt.ocr_queue
                       /\ ocr_tasks' = nxt.ocr_tasks
                  ELSE /\ ocr_queue' = queue
                       /\ UNCHANGED << pc, ocr_tasks >>
        /\ UNCHANGED << args, site, input, output, run, file, checkpoint, page, start_page,
                        end_page, enable_ocr, current_batch, batch_num, stats,
                        interrupted, late_interrupt, ghost >>

\* --------------------------------- process_ocr_batch, lines 335-375
OcrRunning(ts) == {j \in DOMAIN ts : ts[j].st = "running"}

\* A worker of the OCR pool calls ocr.extract_from_url_sync, which passes
\* the preview image to the vision capability.
OcrStart ==
    \E i \in DOMAIN ocr_tasks :
        /\ pc \in {"ocr", "drain"}
        /\ ocr_tasks[i].st = "pending"
        /\ Cardinality(OcrRunning(ocr_tasks)) < OcrConcurrency
        /\ ocr_tasks' = [ocr_tasks EXCEPT ![i].st = "running"]
        /\ vision_log' = vision_log \cup {<< page, ocr_tasks[i].url >>}
        /\ UNCHANGED << args, site, input, output, run, file, checkpoint, pc, page, start_page,
                        end_page, enable_ocr, processed_set, ocr_queue, current_batch,
                        batch_num, tasks, stats, interrupted, late_interrupt,
                        prior, fetched, handed, posted, submitted, classified,
                        extracted, pages_done, final_writes, delay >>

\* extract_from_url_sync returns its OCRResult (it raises nothing).
OcrReturn ==
    \E i \in DOMAIN ocr_tasks :
        /\ pc \in {"ocr", "drain"}
        /\ ocr_tasks[i].st = "running"
        /\ ocr_tasks' = [ocr_tasks EXCEPT ![i].st = "returned"]
        /\ UNCHANGED << args, site, input, output, run, file, checkpoint, pc, page, start_page,
                        end_page, enable_ocr, processed_set, ocr_queue, current_batch,
                        batch_num, tasks, stats, interrupted, late_interrupt, ghost >>

\* Line 352: usage is tracked outside a dry run when the result carries
\* tokens.
TrackAlways(result, dry_run) == ~dry_run

TrackUsage(result, dry_run) ==
    ~dry_run /\ (result.input_tokens > 0 \/ result.output_tokens > 0)

\* Lines 365-367: the result counts as processed when it succeeded with rows.
OcrProcessed(result) == result.success /\ result.rows > 0

\* One turn of the as_completed loop of process_ocr_batch, lines 346-373;
\* after the last future the batch returns and line 544 empties the queue.
OcrCollect ==
    \E i \in DOMAIN ocr_tasks :
        /\ pc = "ocr"
        /\ ocr_tasks[i].st = "returned"
        /\ LET result == OcrResult(ocr_tasks[i].url)
               ts == [ocr_tasks EXCEPT ![i].st = "collected",
                                       ![i].tracked = IF TrackUsage(result, args.dry_run)
                                                      THEN @ + 1 ELSE @]
           IN  /\ ocr_tasks' = ts
               /\ stats' = IF OcrProcessed(result)
                           THEN increment(stats, "ocr_processed", 1) ELSE stats
               /\ IF AllCollected(ts)
                  THEN /\ pc' = "page_end"
                       /\ ocr_queue' = << >>
                  ELSE UNCHANGED << pc, ocr_queue >>
        /\ UNCHANGED << args, site, input, output, run, file, checkpoint, page, start_page,
                        end_page, enable_ocr, processed_set, current_batch,
                        batch_num, tasks, interrupted, late_interrupt, ghost >>

\* ----------------------------------------- end of a page, lines 550-571
\* The for loop's step: the next page, or the finally block after the last.
NextPcAborts(p, last) == "finally"

NextPc(p, last) == IF p + 1 <= last THEN "fetch" ELSE "finally"

BatchOverfull(batch, batch_size) == Len(batch) > batch_size

BatchComplete(batch, batch_size) == Len(batch) >= batch_size

\* The page joins the batch. A complete batch opens the checkpoint file for
\* writing, which truncates it; else the loop sleeps the random page delay.
PageEnd ==
    /\ pc = "page_end"
    /\ pages_done' = pages_done \cup {page}
    /\ current_batch' = Append(current_batch, page)
    /\ IF BatchComplete(Append(current_batch, page), args.batch_size)
       THEN /\ batch_num' = batch_num + 1
            /\ file' = FileTruncated
            /\ pc' = "batch_write"
            /\ UNCHANGED << page, delay >>
       ELSE /\ delay' = "page"
            /\ page' = page + 1
            /\ pc' = NextPc(page, end_page)
            /\ UNCHANGED << batch_num, file >>
    /\ UNCHANGED << args, site, input, output, run, checkpoint, start_page, end_page, enable_ocr,
                    processed_set, ocr_queue, tasks, ocr_tasks, stats, interrupted,
                    late_interrupt, prior, fetched, handed, posted, submitted,
                    classified, extracted, vision_log, final_writes >>

\* The page save_checkpoint is given after a batch, line 558.
BatchLastPage(p, last) == p

\* save_checkpoint(page, ...) completes; the batch delay follows unless this
\* was the last page.
BatchWrite ==
    /\ pc = "batch_write"
    /\ file' \in Checkpoints(BatchLastPage(page, end_page), processed_set)
    /\ delay' = IF page < end_page THEN "batch" ELSE None
    /\ current_batch' = << >>
    /\ page' = page + 1
    /\ pc' = NextPc(page, end_page)
    /\ UNCHANGED << args, site, input, output, run, checkpoint, start_page, end_page, enable_ocr,
                    processed_set, ocr_queue, batch_num, tasks, ocr_tasks, stats,
                    interrupted, late_interrupt, prior, fetched, handed, posted,
                    submitted, classified, extracted, vision_log, pages_done,
                    final_writes >>

\* ------------------------------------------------- KeyboardInterrupt
\* Raised in the main thread. No except clause of backfill_pages catches it
\* (they catch Exception), so control goes to the finally block; from inside
\* a with ThreadPoolExecutor block the main thread first waits for the
\* workers (shutdown(wait=True)). Raised inside the finally block it ends
\* backfill_pages at once, and main goes to its summary. The locals of the
\* loop (futures, queue, batch) are dead once the loop is left.
InterruptSkipsFinally(at, concurrency) ==
    CASE at \in {"fetch", "page_end", "batch_write"} -> "summary"
      [] at = "articles" -> IF concurrency <= 1 THEN "summary" ELSE "drain"
      [] at = "ocr" -> "drain"
      [] OTHER -> "exited"

InterruptTarget(at, concurrency) ==
    CASE at \in {"fetch", "page_end", "batch_write"} -> "final_write"
      [] at = "articles" -> IF concurrency <= 1 THEN "final_write" ELSE "drain"
      [] at = "ocr" -> "drain"
      [] OTHER -> "exited"

\* How a run ended, given where it was first interrupted: in the middle of a
\* batch when a page of the batch was being processed.
EndOfRun(at) ==
    IF at \in {"articles", "ocr", "page_end"} THEN "mid_batch" ELSE "other"

\* The memory of a process that has exited.
Exited ==
    /\ pc' = "exited"
    /\ interrupted' = None
    /\ checkpoint' = NoCheckpoint
    /\ page' = 0 /\ start_page' = 0 /\ end_page' = 0
    /\ enable_ocr' = FALSE
    /\ processed_set' = {}
    /\ ocr_queue' = << >>
    /\ current_batch' = << >>
    /\ batch_num' = 0
    /\ tasks' = << >>
    /\ ocr_tasks' = << >>
    /\ stats' = StatsInit
    /\ fetched' = << >>
    /\ handed' = [u \in Urls |-> 0]
    /\ posted' = {}
    /\ submitted' = {}
    /\ classified' = {}
    /\ extracted' = {}
    /\ vision_log' = {}
    /\ pages_done' = {}
    /\ delay' = None

\* An interrupt while the page loop runs. Outside an executor the finally
\* block is entered at once: source.close(), then save_checkpoint opens the
\* file for writing, which truncates it.
Interrupt ==
    /\ run <= InterruptRuns
    /\ pc \in {"fetch", "articles", "ocr", "page_end", "batch_write"}
    /\ pc' = InterruptTarget(pc, args.concurrency)
    /\ interrupted' = pc
    /\ IF InterruptTarget(pc, args.concurrency) = "drain"
       THEN UNCHANGED << tasks, ocr_tasks, ocr_queue, current_batch, file >>
       ELSE /\ tasks' = << >>
            /\ ocr_tasks' = << >>
            /\ ocr_queue' = << >>
            /\ current_batch' = << >>
            /\ file' = FileTruncated
    /\ UNCHANGED << args, site, input, output, run, checkpoint, page, start_page, end_page,
                    enable_ocr, processed_set, batch_num, stats, late_interrupt,
                    ghost >>

\* An interrupt inside the finally block: save_checkpoint is not called, or
\* is left with the file opened and not written; main prints its summary
\* (lines 671-675) and the process exits.
LateInterrupt ==
    /\ run <= InterruptRuns
    /\ pc \in {"finally", "final_write"}
    /\ InterruptTarget(pc, args.concurrency) = "exited"
    /\ prior' = EndOfRun(IF interrupted = None THEN pc ELSE interrupted)
    /\ late_interrupt' = TRUE
    /\ Exited
    /\ UNCHANGED << args, site, input, output, run, file, final_writes >>

\* The executor's __exit__ returns once every submitted task has run, and
\* the finally block is entered as after any other interrupt.
Drain ==
    /\ pc = "drain"
    /\ \A j \in DOMAIN tasks : tasks[j].st \in {"done", "collected"}
    /\ \A j \in DOMAIN ocr_tasks : ocr_tasks[j].st \in {"returned", "collected"}
    /\ pc' = "final_write"
    /\ file' = FileTruncated
    /\ tasks' = << >>
    /\ ocr_tasks' = << >>
    /\ ocr_queue' = << >>
    /\ current_batch' = << >>
    /\ UNCHANGED << args, site, input, output, run, checkpoint, page, start_page, end_page,
                    enable_ocr, processed_set, batch_num, stats, interrupted,
                    late_interrupt, ghost >>

\* -------------------------------------- finally block, lines 573-575
\* After the last page: source.close(), then save_checkpoint opens the file
\* for writing.
Finally ==
    /\ pc = "finally"
    /\ file' = FileTruncated
    /\ pc' = "final_write"
    /\ UNCHANGED << args, site, input, output, run, checkpoint, page, start_page, end_page,
                    enable_ocr, processed_set, ocr_queue, current_batch, batch_num,
                    tasks, ocr_tasks, stats, interrupted, late_interrupt, ghost >>

\* The page save_checkpoint is given in the finally block, line 575.
FinalLastPage(p, last) == last

\* save_checkpoint(end_page, ...) completes and backfill_pages is left.
FinalWrite ==
    /\ pc = "final_write"
    /\ file' \in Checkpoints(FinalLastPage(page, end_page), processed_set)
    /\ final_writes' = final_writes + 1
    /\ pc' = "summary"
    /\ UNCHANGED << args, site, input, output, run, checkpoint, page, start_page, end_page,
                    enable_ocr, processed_set, ocr_queue, current_batch, batch_num,
                    tasks, ocr_tasks, stats, interrupted, late_interrupt, prior,
                    fetched, handed, posted, submitted, classified, extracted,
                    vision_log, pages_done, delay >>

\* ------------------------------------------------ main, lines 669-675
\* stats.print_summary() in main's finally clause; the process exits.
Summary ==
    /\ pc = "summary"
    /\ prior' = EndOfRun(interrupted)
    /\ Exited
    /\ UNCHANGED << args, site, input, output, run, file, late_interrupt, final_writes >>

\* The operator runs the script again with --resume: a new process, whose
\* only inheritance is the checkpoint file.
Restart ==
    /\ pc = "exited"
    /\ run < MaxRuns
    /\ run' = run + 1
    /\ args' = [args EXCEPT !.resume = TRUE]
    /\ pc' = "main"
    /\ late_interrupt' = FALSE
    /\ final_writes' = 0
    /\ UNCHANGED << site, input, output, file, checkpoint, page, start_page, end_page, enable_ocr,
                    processed_set, ocr_queue, current_batch, batch_num, tasks,
                    ocr_tasks, stats, interrupted, prior, fetched, handed, posted,
                    submitted, classified, extracted, vision_log, pages_done,
                    delay >>

Next ==
    \/ Main
    \/ Fetch
    \/ SeqStart
    \/ SeqTable
    \/ SeqFinish
    \/ WorkerStart
    \/ WorkerTable
    \/ WorkerFinish
    \/ Collect
    \/ OcrStart
    \/ OcrReturn
    \/ OcrCollect
    \/ PageEnd
    \/ BatchWrite
    \/ Interrupt
    \/ LateInterrupt
    \/ Drain
    \/ Finally
    \/ FinalWrite
    \/ Summary
    \/ Restart

Spec == Init /\ [][Next]_vars

\* ------------------------------------------------------------ claims
\* C1: in a run started with --resume after a run that was interrupted in
\* the middle of a batch, no URL of the checkpoint's processed_urls is handed
\* to process_single_article.
C1_ResumeSkipsCheckpointedUrls ==
    (run > 1 /\ args.resume /\ prior = "mid_batch" /\ checkpoint.st = "complete")
        => \A u \in checkpoint.processed_urls : handed[u] = 0

\* C2: the last_page of every checkpoint on disk is a page whose processing
\* has finished, and so is every page before it that a resumed run skips
\* (stated for the first run, which starts at page 1 with no checkpoint).
C2_LastPageFinished ==
    (run = 1 /\ pc # "exited" /\ file.st = "complete")
        => \A p \in args.pages[1]..file.last_page : p \in pages_done

C4_EachUrlAtMostOnce == \A u \in Urls : handed[u] <= 1

\* C5, as stated: no OCR call of a page starts before every article task of
\* the page has finished; the next page is not fetched before the OCR batch
\* has finished; and the only calls that overlap one another are article
\* tasks of a single page, so no two OCR calls overlap either.
C5_OnlyArticleTasksOverlap ==
    /\ \A i \in DOMAIN ocr_tasks : ocr_tasks[i].st # "pending" =>
          \A j \in DOMAIN tasks : tasks[j].st \in {"done", "collected"}
    /\ pc = "fetch" => /\ \A j \in DOMAIN tasks : tasks[j].st = "collected"
                       /\ \A i \in DOMAIN ocr_tasks : ocr_tasks[i].st = "collected"
    /\ \A j \in Running(tasks) : tasks[j].page = page
    /\ Running(tasks) = {} \/ OcrRunning(ocr_tasks) = {}
    /\ Cardinality(OcrRunning(ocr_tasks)) <= 1

\* C5, amended: the same order of phases, where the OCR calls of the batch of
\* a single page may overlap one another as the article tasks of a single
\* page may; an article task never overlaps an OCR call, and every call at
\* work belongs to the current page.
C5_PhasesOrderedPerPage ==
    /\ \A i \in DOMAIN ocr_tasks : ocr_tasks[i].st # "pending" =>
          \A j \in DOMAIN tasks : tasks[j].st \in {"done", "collected"}
    /\ pc = "fetch" => /\ \A j \in DOMAIN tasks : tasks[j].st = "collected"
                       /\ \A i \in DOMAIN ocr_tasks : ocr_tasks[i].st = "collected"
    /\ \A j \in Running(tasks) : tasks[j].page = page
    /\ \A i \in OcrRunning(ocr_tasks) : ocr_tasks[i].page = page
    /\ Running(tasks) = {} \/ OcrRunning(ocr_tasks) = {}

\* On the second page of a parallel run, two OCR calls at work at once after
\* the two article tasks of the page.
C5_Witness ==
    /\ page = 2
    /\ args.concurrency > 1
    /\ Len(tasks) = 2
    /\ Cardinality(OcrRunning(ocr_tasks)) = 2

\* ------------------------------------------- the run, one call at a time
\* What a run that is never interrupted computes when every call runs to its
\* end before the next starts: a function of the pages fetched, the first
\* page, --dry-run and --enable-ocr; the size of the pool is no argument.
RunInit ==
    [seen |-> {}, queue |-> << >>, stats |-> StatsInit, posted |-> {},
     submitted |-> {}, classified |-> {}, extracted |-> {}, vision |-> {}]

OneArticle(r, u, dry_run, ocr_on) ==
    LET m == ExtractMetrics(r.stats, u, dry_run)
        d == process_industry_data(m.stats, u, dry_run)
        t == IF d.out = "table" THEN increment_table(d.stats, TargetTable(u), 1)
                                ELSE d.stats
        ind == d.out \in {"true", "table"}
    IN  [r EXCEPT !.stats = FinishedStats(t, u, ind, ocr_on),
                  !.posted = IF m.post THEN @ \cup {u} ELSE @,
                  !.submitted = IF d.call THEN @ \cup {u} ELSE @,
                  !.classified = IF d.cls THEN @ \cup {u} ELSE @,
                  !.extracted = IF d.ext THEN @ \cup {u} ELSE @,
                  !.queue = IF QueueForOcr(u, ind, ocr_on) THEN Append(@, u) ELSE @,
                  !.seen = @ \cup {u}]

RECURSIVE Articles(_, _, _, _, _)
Articles(r, arts, k, dry_run, ocr_on) ==
    IF k > Len(arts) THEN r
    ELSE Articles(OneArticle(r, arts[k], dry_run, ocr_on), arts, k + 1, dry_run, ocr_on)

OnePage(r, articles, p, dry_run, ocr_on) ==
    LET found == increment(increment(r.stats, "articles_found", Len(articles)),
                           "pages_processed", 1)
        done == Articles([r EXCEPT !.stats = found, !.queue = << >>],
                         NewArticles(articles, r.seen), 1, dry_run, ocr_on)
        ocr == OcrArticles(done.queue)
        rows == {i \in DOMAIN ocr : OcrProcessed(OcrResult(ocr[i]))}
    IN  [done EXCEPT !.stats = increment(@, "ocr_processed", Cardinality(rows)),
                     !.vision = @ \cup {<< p, ocr[i] >> : i \in DOMAIN ocr},
                     !.queue = << >>]

RECURSIVE OneByOne(_, _, _, _, _, _)
OneByOne(r, pages, k, first, dry_run, ocr_on) ==
    IF k > Len(pages) THEN r
    ELSE OneByOne(OnePage(r, pages[k], first + k - 1, dry_run, ocr_on),
                  pages, k + 1, first, dry_run, ocr_on)

\* C6: whatever the size of the worker pool and however the workers
\* interleave, a run that was not interrupted ends with the processed URLs,
\* the submitted records (EVMetric posts and industry submissions), the
\* articles sent to OCR for each page and the counters that the calls give
\* when made one at a time over the same fetched pages; so a run with pool
\* size 1 and a run with pool size 2 over the same inputs end the same.
C6_PoolSizeDoesNotChangeResults ==
    (pc = "summary" /\ interrupted = None) =>
        LET r == OneByOne(RunInit, fetched, 1, start_page, args.dry_run, enable_ocr)
        IN  /\ processed_set = r.seen
            /\ posted = r.posted
            /\ submitted = r.submitted
            /\ vision_log = r.vision
            /\ stats = r.stats

\* A parallel run of two pages ends: a page held two different articles, a
\* record was submitted and an OCR result was counted.
C6_Witness ==
    /\ pc = "summary" /\ interrupted = None
    /\ args.concurrency > 1
    /\ Len(fetched) = 2
    /\ \E k \in DOMAIN fetched : Len(fetched[k]) = 2 /\ fetched[k][1] # fetched[k][2]
    /\ submitted # {}
    /\ stats.ocr_processed > 0

\* The steps the program takes by itself: every action but the operator's
\* interrupts and re-runs.
ProgramStep ==
    \/ Main \/ Fetch \/ SeqStart \/ SeqTable \/ SeqFinish
    \/ WorkerStart \/ WorkerTable \/ WorkerFinish \/ Collect
    \/ OcrStart \/ OcrReturn \/ OcrCollect
    \/ PageEnd \/ BatchWrite \/ Drain \/ Finally \/ FinalWrite \/ Summary

RECURSIVE SumOver(_, _)
SumOver(f, S) ==
    IF S = {} THEN 0
    ELSE LET x == CHOOSE y \in S : TRUE IN f[x] + SumOver(f, S \ {x})

\* C7: no outcome of an article (classification miss, extraction failure,
\* submission failure, OCR failure) and no outcome of a page (a failed fetch
\* returns no article) stops the run: the program can always take a step
\* until it has exited, and a run that was not interrupted reaches its
\* summary with every page from start_page to end_page fetched and finished,
\* every fetched article handed to process_single_article, every such call
\* run to its end, and the final checkpoint written.
C7_FailuresDoNotStopTheRun ==
    /\ pc # "exited" => ENABLED ProgramStep
    /\ (pc = "summary" /\ interrupted = None) =>
          /\ pages_done = start_page..end_page
          /\ Len(fetched) = Cardinality(start_page..end_page)
          /\ \A k \in DOMAIN fetched : \A i \in DOMAIN fetched[k] :
                handed[fetched[k][i]] >= 1
          /\ stats.articles_processed = SumOver(handed, Urls)
          /\ final_writes = 1

\* A run ends uninterrupted although the fetch of page 1 gave nothing, a
\* submission of page 2 failed and an OCR call of page 2 failed.
C7_Witness ==
    /\ pc = "summary" /\ interrupted = None
    /\ Len(fetched) = 2 /\ fetched[1] = << >> /\ Len(fetched[2]) = 2
    /\ stats.industry_failed > 0
    /\ \E v \in vision_log : ArticleTable[v[2]].ocr = "error"

\* C8: in a dry run nothing reaches the submission layer at any point (no
\* EVMetric post, no industry submission, no usage report, and none of the
\* counters of submissions moves), and a dry run that was not interrupted
\* ends with the articles classified, extracted and passed to the vision
\* capability, page by page, that the calls of a run without --dry-run give
\* over the same fetched pages.
C8_DryRunOnlyWithholdsSubmission ==
    /\ args.dry_run =>
          /\ posted = {} /\ submitted = {}
          /\ \A i \in DOMAIN ocr_tasks : ocr_tasks[i].tracked = 0
          /\ stats.metrics_submitted = 0 /\ stats.metrics_failed = 0
          /\ stats.industry_submitted = 0 /\ stats.industry_failed = 0
    /\ (pc = "summary" /\ interrupted = None) =>
          LET r == OneByOne(RunInit, fetched, 1, start_page, FALSE, enable_ocr)
          IN  /\ classified = r.classified
              /\ extracted = r.extracted
              /\ vision_log = r.vision

\* A dry run ends: it processed an article whose record a run without
\* --dry-run submits, and passed another to the vision capability.
C8_Witness ==
    /\ args.dry_run
    /\ pc = "summary" /\ interrupted = None
    /\ \E u \in Urls : handed[u] > 0 /\ u \in extracted /\ ArticleTable[u].extract = "ok"
    /\ vision_log # {}

\* C9, as stated: outside a dry run, every OCR call whose result the batch
\* has received (rows, no rows, a non-JSON answer or a failure) has been
\* reported to track_ocr_usage exactly once.
C9_EveryOcrCallReportedOnce ==
    ~args.dry_run =>
        \A i \in DOMAIN ocr_tasks :
            ocr_tasks[i].st = "collected" => ocr_tasks[i].tracked = 1

\* C9, amended: an OCR call is reported at most once and not before the batch
\* has received its result; once received, outside a dry run, it has been
\* reported exactly once when the result carries tokens (rows, no rows, a
\* non-JSON answer) and not at all when it carries none (the call failed).
C9_UsageReportedOnceWhenTokens ==
    \A i \in DOMAIN ocr_tasks :
        LET result == OcrResult(ocr_tasks[i].url)
            tokens == result.input_tokens + result.output_tokens
        IN  /\ ocr_tasks[i].tracked <= 1
            /\ ocr_tasks[i].st # "collected" => ocr_tasks[i].tracked = 0
            /\ ocr_tasks[i].st = "collected" =>
                  (ocr_tasks[i].tracked = 1 <=> (~args.dry_run /\ tokens > 0))

\* The batch of a page has received a failed call, not reported, and a
\* non-JSON answer, reported once.
C9_Witness ==
    /\ ~args.dry_run
    /\ pc = "page_end"
    /\ \E i, j \in DOMAIN ocr_tasks :
          /\ ArticleTable[ocr_tasks[i].url].ocr = "error"
          /\ ocr_tasks[i].st = "collected" /\ ocr_tasks[i].tracked = 0
          /\ ArticleTable[ocr_tasks[j].url].ocr = "nonjson"
          /\ ocr_tasks[j].st = "collected" /\ ocr_tasks[j].tracked = 1

\* C10: no article whose ocr_data_type is "chart" is passed to the vision
\* capability, whether its needs_ocr flag is set or not, also when it has been
\* put on the OCR queue of its page.
C10_ChartNeverSentToVision ==
    /\ \A v \in vision_log : OcrDataType(v[2]) # "chart"
    /\ \A i \in DOMAIN ocr_tasks : OcrDataType(ocr_tasks[i].url) # "chart"

\* The OCR batch of a page runs with a chart article, flagged needs_ocr, on
\* the queue: the other article of the queue has been passed to the vision
\* capability, the chart article has not.
C10_Witness ==
    /\ pc = "ocr"
    /\ \E k \in DOMAIN ocr_queue :
          /\ OcrDataType(ocr_queue[k]) = "chart"
          /\ ArticleTable[ocr_queue[k]].needs_ocr
    /\ \E v \in vision_log : v[1] = page
    /\ \A i \in DOMAIN ocr_tasks : ocr_tasks[i].st = "collected" \/ ocr_tasks[i].st = "returned"

Digits == {"0", "1", "2", "3", "4", "5", "6", "7", "8", "9"}
Upper == "ABCDEFGHIJKLMNOPQRSTUVWXYZ"
Lowercase == "abcdefghijklmnopqrstuvwxyz"
Letters == {SubSeq(Upper, k, k) : k \in 1..Len(Upper)}
               \cup {SubSeq(Lowercase, k, k) : k \in 1..Len(Lowercase)}
\* \s and \w of the re module, on the characters titles are made of.
Space == {" "}
WordChars == Letters \cup Digits \cup {"_"}

\* s[i], or "" beyond either end of s.
At(s, i) == IF i >= 1 /\ i <= Len(s) THEN SubSeq(s, i, i) ELSE ""

\* s[i:] starts with p.
StartsAt(s, i, p) == i + Len(p) - 1 <= Len(s) /\ SubSeq(s, i, i + Len(p) - 1) = p

\* p in s.
In(p, s) == \E i \in 1..(Len(s) + 1) : StartsAt(s, i, p)

\* str.lower().
LowerChar(c) ==
    IF \E k \in 1..Len(Upper) : SubSeq(Upper, k, k) = c
    THEN LET k == CHOOSE j \in 1..Len(Upper) : SubSeq(Upper, j, j) = c
         IN  SubSeq(Lowercase, k, k)
    ELSE c

RECURSIVE lower(_)
lower(s) == IF s = "" THEN "" ELSE LowerChar(Head(s)) \o lower(Tail(s))

\* str.replace(c, "") for a one-character c.
RECURSIVE Remove(_, _)
Remove(s, c) ==
    IF s = "" THEN ""
    ELSE IF Head(s) = c THEN Remove(Tail(s), c) ELSE Head(s) \o Remove(Tail(s), c)

\* Length of the longest run of characters of cs that starts at s[i].
RECURSIVE Run(_, _, _)
Run(s, i, cs) == IF At(s, i) \in cs THEN 1 + Run(s, i + 1, cs) ELSE 0

\* ------------------------------------------------ regular expressions
\* A pattern is a sequence of items: one of several literals, a repetition
\* of a character class, .*, a group of alternatives, or \b.
Item(t, alts, chars, lo, hi, sub) ==
    [t |-> t, alts |-> alts, chars |-> chars, lo |-> lo, hi |-> hi, sub |-> sub]
\* (?:a|b|c), and a alone.
Lit(alts) == Item("lit", alts, {}, 0, 0, << >>)
L(a) == Lit({a})
\* [chars]{lo,hi}; hi = -1 for no upper limit.
Rep(chars, lo, hi) == Item("rep", {}, chars, lo, hi, << >>)
\* \s*
Ws == Rep(Space, 0, -1)
\* .*
Dots == Item("any", {}, {}, 0, 0, << >>)
\* (?:p1|p2|...), each alternative a pattern; and (?:p)?
Alt(subs) == Item("alt", {}, {}, 0, 0, subs)
Opt(sub) == Alt({sub, << >>})
\* \b
Boundary == Item("boundary", {}, {}, 0, 0, << >>)

\* The positions that follow a match of the items k.. of pat at s[i:].
RECURSIVE Ends(_, _, _, _)
Ends(pat, k, s, i) ==
    IF k > Len(pat) THEN {i}
    ELSE LET it == pat[k]
         IN  CASE it.t = "lit" ->
                    UNION {Ends(pat, k + 1, s, i + Len(a)) :
                              a \in {b \in it.alts : StartsAt(s, i, b)}}
               [] it.t = "any" ->
                    UNION {Ends(pat, k + 1, s, j) : j \in i..(Len(s) + 1)}
               [] it.t = "rep" ->
                    LET most == Run(s, i, it.chars)
                        top == IF it.hi < 0 \/ most < it.hi THEN most ELSE it.hi
                    IN  UNION {Ends(pat, k + 1, s, i + n) : n \in it.lo..top}
               [] it.t = "alt" ->
                    UNION {Ends(pat, k + 1, s, j) :
                              j \in UNION {Ends(sub, 1, s, i) : sub \in it.sub}}
               [] it.t = "boundary" ->
                    IF (At(s, i - 1) \in WordChars) # (At(s, i) \in WordChars)
                    THEN Ends(pat, k + 1, s, i) ELSE {}

\* pattern.search(s) finds a match.
Search(pat, s) == \E i \in 1..(Len(s) + 1) : Ends(pat, 1, s, i) # {}

\* any(p.search(text) for p in patterns).
match_any(patterns, text) == \E p \in patterns : Search(p, text)


\* ------------------------------------------- classifier.py, patterns
PASSENGER_INVENTORY_PATTERNS ==
    { << L("passenger"), Ws, L("car"), Ws, L("inventor") >>,
      << L("china"), Ws, Lit({"auto", "car", "vehicle"}), Ws, L("inventor") >> }

CHINA_BATTERY_PATTERNS ==
    { << L("china"), Ws, Opt(<< L("ev"), Ws >>), L("battery"), Ws, L("install") >>,
      << L("power"), Ws, L("battery"), Ws, L("install"), Dots, L("china") >>,
      << L("china"), Ws, L("power"), Ws, L("battery") >> }

CAAM_PATTERNS ==
    { << L("caam"), Ws,
         Alt({<< L("nev") >>, << L("ev") >>, << L("new"), Ws, L("energy") >>}) >>,
      << L("caam"), Dots, L("sales") >>,
      << L("nev"), Ws, L("sales"), Dots, Opt(<< L("by"), Ws >>), L("caam") >>,
      << L("sales"), Ws, L("data"), Ws, Opt(<< L("by"), Ws >>), L("caam") >> }

DEALER_INVENTORY_PATTERNS ==
    { << L("dealer"), Ws, L("inventor"), Dots, Lit({"factor", "coefficient", "ratio"}) >>,
      << L("inventor"), Dots, Lit({"factor", "coefficient"}), Dots, L("dealer") >> }

CPCA_RETAIL_PATTERNS ==
    { << L("cpca"), Dots, L("nev"), Dots, L("retail") >>,
      << L("cpca"), Dots, L("retail"), Dots, L("nev") >>,
      << L("nev"), Ws, L("retail"), Ws, L("sales"), Dots, L("cpca") >>,
      << L("nev"), Ws, L("retail"), Ws, Opt(<< L("data"), Ws >>),
         Opt(<< L("by"), Ws >>), L("cpca") >>,
      << L("retail"), Ws, Lit({"data", "sales"}), Ws, Opt(<< L("by"), Ws >>), L("cpca") >> }

CPCA_PRODUCTION_PATTERNS ==
    { << L("cpca"), Dots, L("nev"), Dots, L("production") >>,
      << L("cpca"), Dots, L("production"), Dots, L("nev") >>,
      << L("nev"), Ws, L("production"), Dots, L("cpca") >>,
      << L("nev"), Ws, L("production"), Ws, Opt(<< L("data"), Ws >>),
         Opt(<< L("by"), Ws >>), L("cpca") >>,
      << L("production"), Ws, Lit({"data", "output"}), Ws, Opt(<< L("by"), Ws >>),
         L("cpca") >> }

VIA_INDEX_PATTERNS ==
    { << L("via"), Ws, L("index") >>,
      << L("vehicle"), Ws, L("inventory"), Ws, L("alert"), Ws, L("index") >>,
      << L("inventory"), Ws, L("alert"), Ws, L("index") >> }

MonthlyMakers == {"catl", "byd", "lg", "sk", "panasonic", "calb", "gotion", "eve", "sunwoda"}

BATTERY_MAKER_MONTHLY_PATTERNS ==
    { << Lit(MonthlyMakers), Dots, Lit({"battery", "install", "gwh"}) >>,
      << Lit({"battery", "install", "gwh"}), Dots, Lit(MonthlyMakers) >> }

PLANT_EXPORTS_PATTERNS ==
    { << Lit({"tesla", "byd"}), Dots, Lit({"shanghai", "shenzhen", "changsha"}), Dots,
         L("export") >>,
      << Lit({"shanghai", "shenzhen", "changsha"}), Dots, Lit({"plant", "factory"}), Dots,
         L("export") >>,
      << L("export"), Dots, Lit({"tesla", "byd"}), Dots,
         Lit({"shanghai", "shenzhen", "changsha"}) >> }

NEV_SALES_SUMMARY_PATTERNS ==
    { << L("nev"), Ws, L("sales"), Dots, Rep(Digits, 1, 2), Rep({"-", "/"}, 1, 1),
         Rep(Digits, 1, 2) >>,
      << Rep(Digits, 1, 2), Rep({"-", "/"}, 1, 1), Rep(Digits, 1, 2), Dots,
         L("nev"), Ws, L("sales") >>,
      << L("cpca"), Dots, L("weekly"), Dots, L("nev") >>,
      << L("weekly"), Dots, L("cpca"), Dots, L("nev") >> }

AUTOMAKER_RANKINGS_PATTERNS ==
    { << L("cpca"), Dots, Lit({"top", "ranking"}), Dots, Lit({"automaker", "brand", "maker"}) >>,
      << Lit({"top", "ranking"}), Dots, Lit({"automaker", "brand", "maker"}), Dots, L("cpca") >>,
      << L("top"), Rep({"-", " "}, 0, -1), Lit({"10", "20", "15"}), Dots,
         Lit({"automaker", "brand", "maker"}) >>,
      << Lit({"automaker", "brand", "maker"}), Dots, Lit({"top", "ranking"}) >> }

BATTERY_MAKER_RANKINGS_PATTERNS ==
    { << L("top"), Dots, L("battery"), Ws, L("maker") >>,
      << L("battery"), Ws, L("maker"), Dots, Lit({"ranking", "top"}) >>,
      << Lit({"cabia", "sne"}), Dots, L("battery"), Dots, L("ranking") >>,
      << L("global"), Dots, L("battery"), Dots, L("ranking") >> }

SPEC_KEYWORDS == {"main specs", "specifications", "spec sheet", "key specs"}
BREAKDOWN_KEYWORDS == {"breakdown", "model breakdown", "by model"}
SalesKeywords == {"deliveries", "delivery", "sales", "sold", "wholesale"}

REGIONS ==
    << "shanghai", "beijing", "guangdong", "shenzhen", "hangzhou", "guangzhou",
       "jiangsu", "zhejiang", "sichuan", "chengdu", "tianjin", "chongqing", "hubei",
       "wuhan" >>

BATTERY_MAKERS ==
    << "catl", "byd", "lg", "sk", "panasonic", "calb", "gotion", "eve", "sunwoda",
       "svolt", "lishen", "farasis" >>

\* The first name of the list names that occurs in text, or None.
FirstIn(names, text) ==
    IF \E k \in DOMAIN names : In(names[k], text)
    THEN names[CHOOSE k \in DOMAIN names :
                   /\ In(names[k], text)
                   /\ \A j \in 1..(k - 1) : ~In(names[j], text)]
    ELSE None

\* self._number_pattern of the classifier, \d{1,3}(?:,\d{3})+|\d{4,}, as
\* search uses it: a match exists iff one exists with a single ,\d{3} group.
ClassifierNumber ==
    { << Rep(Digits, 1, 3), L(","), Rep(Digits, 3, 3) >>,
      << Rep(Digits, 4, -1) >> }

\* ArticleClassifier._has_number
has_number(text) == match_any(ClassifierNumber, text)

\* str.upper(), and str.title() of a one-word lower-case name.
UpperChar(c) ==
    IF \E k \in 1..Len(Lowercase) : SubSeq(Lowercase, k, k) = c
    THEN LET k == CHOOSE j \in 1..Len(Lowercase) : SubSeq(Lowercase, j, j) = c
         IN  SubSeq(Upper, k, k)
    ELSE c

RECURSIVE upper(_)
upper(s) == IF s = "" THEN "" ELSE UpperChar(Head(s)) \o upper(Tail(s))

Capitalize(s) == IF s = "" THEN "" ELSE UpperChar(Head(s)) \o Tail(s)

\* ArticleClassifier._extract_battery_maker and _extract_region
extract_battery_maker(title_lower) ==
    LET maker == FirstIn(BATTERY_MAKERS, title_lower)
    IN  IF maker = None THEN None ELSE upper(maker)

extract_region(title_lower) ==
    LET region == FirstIn(REGIONS, title_lower)
    IN  IF region = None THEN None ELSE Capitalize(region)

\* ClassificationResult (confidence, which nothing reads, is left out).
ClassificationResult(article_type, target_table, needs_ocr, dimensions, ocr_data_type) ==
    [article_type |-> article_type, target_table |-> target_table,
     needs_ocr |-> needs_ocr, dimensions |-> dimensions,
     ocr_data_type |-> ocr_data_type]

NoDimensions == [k \in {} |-> None]

\* ArticleClassifier.classify; the summary is not read.
classify(title) ==
    LET title_lower == lower(title)
        number == has_number(title)
        battery_maker == extract_battery_maker(title_lower)
        region == extract_region(title_lower)
    IN  IF match_any(VIA_INDEX_PATTERNS, title_lower)
        THEN ClassificationResult("CHINA_VIA_INDEX", "ChinaViaIndex", ~number,
                                  NoDimensions, "chart")
        ELSE IF match_any(DEALER_INVENTORY_PATTERNS, title_lower)
        THEN ClassificationResult("CHINA_DEALER_INVENTORY_FACTOR",
                                  "ChinaDealerInventoryFactor", ~number,
                                  NoDimensions, "chart")
        ELSE IF match_any(BATTERY_MAKER_RANKINGS_PATTERNS, title_lower)
        THEN ClassificationResult("BATTERY_MAKER_RANKINGS", "BatteryMakerRankings", TRUE,
                                  [scope |-> IF In("global", title_lower)
                                             THEN "GLOBAL" ELSE "CHINA"],
                                  "rankings")
        ELSE IF match_any(AUTOMAKER_RANKINGS_PATTERNS, title_lower)
        THEN ClassificationResult("AUTOMAKER_RANKINGS", "AutomakerRankings", TRUE,
                                  NoDimensions, "rankings")
        ELSE IF match_any(NEV_SALES_SUMMARY_PATTERNS, title_lower)
        THEN ClassificationResult("NEV_SALES_SUMMARY", "NevSalesSummary", ~number,
                                  NoDimensions, "trend")
        ELSE IF match_any(PLANT_EXPORTS_PATTERNS, title_lower)
        THEN ClassificationResult("PLANT_EXPORTS", "PlantExports", ~number,
                                  NoDimensions, "chart")
        ELSE IF battery_maker # None
                /\ match_any(BATTERY_MAKER_MONTHLY_PATTERNS, title_lower)
        THEN ClassificationResult("BATTERY_MAKER_MONTHLY", "BatteryMakerMonthly", ~number,
                                  [maker |-> battery_maker], "chart")
        ELSE IF match_any(CHINA_BATTERY_PATTERNS, title_lower)
        THEN ClassificationResult("CHINA_BATTERY_INSTALLATION", "ChinaBatteryInstallation",
                                  ~number, NoDimensions, "chart")
        ELSE IF match_any(CAAM_PATTERNS, title_lower)
        THEN ClassificationResult("CAAM_NEV_SALES", "CaamNevSales", ~number,
                                  NoDimensions, "chart")
        ELSE IF match_any(CPCA_PRODUCTION_PATTERNS, title_lower)
        THEN ClassificationResult("CPCA_NEV_PRODUCTION", "CpcaNevProduction", ~number,
                                  NoDimensions, "chart")
        ELSE IF match_any(CPCA_RETAIL_PATTERNS, title_lower)
        THEN ClassificationResult("CPCA_NEV_RETAIL", "CpcaNevRetail", ~number,
                                  NoDimensions, "chart")
        ELSE IF match_any(PASSENGER_INVENTORY_PATTERNS, title_lower)
        THEN ClassificationResult("CHINA_PASSENGER_INVENTORY", "ChinaPassengerInventory",
                                  ~number, NoDimensions, "chart")
        ELSE IF \E kw \in SPEC_KEYWORDS : In(kw, title_lower)
        THEN ClassificationResult("VEHICLE_SPEC", "VehicleSpec", TRUE, NoDimensions, "specs")
        ELSE IF \E kw \in BREAKDOWN_KEYWORDS : In(kw, title_lower)
        THEN ClassificationResult("MODEL_BREAKDOWN", "EVMetric", ~number,
                                  [vehicleModel |-> "parse_from_content"], None)
        ELSE IF region # None
        THEN ClassificationResult("REGIONAL_DATA", "EVMetric", ~number,
                                  [region |-> region], None)
        ELSE IF \E kw \in SalesKeywords : In(kw, title_lower)
        THEN ClassificationResult("BRAND_METRIC", "EVMetric", ~number, NoDimensions, None)
        ELSE ClassificationResult("SKIP", None, FALSE, NoDimensions, None)


\* ---------------------------------------------------------- numbers
\* A float is kept as a decimal: whole units and a fraction of FracDigits
\* digits, the digits of a numeral beyond them being dropped.
FracDigits == 4
FracUnit == 10 ^ FracDigits
Num(whole, frac) == [whole |-> whole, frac |-> frac]
\* None where a float is expected (no numeral has a sign).
NoValue == Num(-1, 0)
Less(a, b) == a.whole < b.whole \/ (a.whole = b.whole /\ a.frac < b.frac)
AtLeast(a, n) == a.whole >= n
\* a <= n for an integer n.
AtMost(a, n) == a.whole < n \/ (a.whole = n /\ a.frac = 0)
\* max(values) of a non-empty set of floats.
Max(values) == CHOOSE v \in values : \A w \in values : ~Less(v, w)

DigitValue(c) == CHOOSE d \in 0..9 : SubSeq("0123456789", d + 1, d + 1) = c

\* int(s) of a string of digits; 0 for the empty string.
RECURSIVE int(_)
int(s) == IF s = "" THEN 0
          ELSE 10 * int(SubSeq(s, 1, Len(s) - 1)) + DigitValue(SubSeq(s, Len(s), Len(s)))

\* The fraction digits s as a count of FracUnit-ths.
RECURSIVE Pad(_)
Pad(s) == IF Len(s) >= FracDigits THEN SubSeq(s, 1, FracDigits) ELSE Pad(s \o "0")

\* float(s) of digits with an optional fraction; NoValue where float raises
\* ValueError (no digit at all).
float(s) ==
    LET w == Run(s, 1, Digits)
        f == IF At(s, w + 1) = "." THEN Run(s, w + 2, Digits) ELSE 0
    IN  IF w + f = 0 THEN NoValue
        ELSE Num(int(SubSeq(s, 1, w)), int(Pad(SubSeq(s, w + 2, w + 1 + f))))

\* float * 1_000_000
Million(v) == Num(v.whole * 1000000 + v.frac * (1000000 \div FracUnit), 0)

\* re.findall(r'[\d,]+(?:\.\d+)?', s) from s[i:], left to right.
RECURSIVE findall_numbers(_, _)
findall_numbers(s, i) ==
    IF i > Len(s) THEN << >>
    ELSE LET n == Run(s, i, Digits \cup {","})
             f == IF At(s, i + n) = "." THEN Run(s, i + n + 1, Digits) ELSE 0
             len == IF f > 0 THEN n + 1 + f ELSE n
         IN  IF n = 0 THEN findall_numbers(s, i + 1)
             ELSE << SubSeq(s, i, i + len - 1) >> \o findall_numbers(s, i + len)

\* The leftmost match of   head \s* (?:'?(\d{2,4}))?   in s, for a literal
\* head or the head q[1-4]: where the head starts, and the digits of the
\* group ("" when the group does not take part).
YearAfter(s, k) ==
    LET a == k + Run(s, k, Space)
        b == IF At(s, a) = "'" THEN a + 1 ELSE a
        quoted == Run(s, b, Digits)
        bare == Run(s, a, Digits)
        Take(n) == IF n > 4 THEN 4 ELSE n
    IN  IF quoted >= 2 THEN SubSeq(s, b, b + Take(quoted) - 1)
        ELSE IF bare >= 2 THEN SubSeq(s, a, a + Take(bare) - 1)
        ELSE ""

\* int(year_str) if len(year_str) == 4 else 2000 + int(year_str)
YearOf(year_str) == IF Len(year_str) = 4 THEN int(year_str) ELSE 2000 + int(year_str)

\* -------------------------------------------------- title_parser.py
BRAND_MAPPINGS ==
    << <<"byd", "BYD">>, <<"nio", "NIO">>, <<"xpeng", "XPENG">>,
       <<"li auto", "LI_AUTO">>, <<"li", "LI_AUTO">>, <<"zeekr", "ZEEKR">>,
       <<"xiaomi", "XIAOMI">>, <<"tesla", "TESLA_CHINA">>,
       <<"tesla china", "TESLA_CHINA">>, <<"china", "INDUSTRY">>,
       <<"nev", "INDUSTRY">>, <<"ev", "INDUSTRY">>, <<"geely", "GEELY">>,
       <<"leapmotor", "LEAPMOTOR">>, <<"changan", "OTHER_BRAND">>,
       <<"saic", "OTHER_BRAND">>, <<"gac", "OTHER_BRAND">>,
       <<"dongfeng", "OTHER_BRAND">>, <<"faw", "OTHER_BRAND">>,
       <<"great wall", "OTHER_BRAND">>, <<"chery", "OTHER_BRAND">>,
       <<"neta", "OTHER_BRAND">>, <<"hozon", "OTHER_BRAND">>,
       <<"avatr", "OTHER_BRAND">>, <<"im", "OTHER_BRAND">>,
       <<"rising", "OTHER_BRAND">>, <<"aion", "OTHER_BRAND">>,
       <<"denza", "OTHER_BRAND">>, <<"yangwang", "OTHER_BRAND">>,
       <<"jiyue", "OTHER_BRAND">>, <<"deepal", "OTHER_BRAND">>,
       <<"voyah", "OTHER_BRAND">>, <<"arcfox", "OTHER_BRAND">>,
       <<"ora", "OTHER_BRAND">>, <<"wuling", "OTHER_BRAND">>,
       <<"hongqi", "OTHER_BRAND">>, <<"hiphi", "OTHER_BRAND">>,
       <<"volvo", "OTHER_BRAND">>, <<"polestar", "OTHER_BRAND">>,
       <<"bmw", "OTHER_BRAND">>, <<"mercedes", "OTHER_BRAND">>,
       <<"audi", "OTHER_BRAND">>, <<"volkswagen", "OTHER_BRAND">>,
       <<"vw", "OTHER_BRAND">>, <<"hyundai", "OTHER_BRAND">>,
       <<"kia", "OTHER_BRAND">> >>

METRIC_KEYWORDS ==
    << <<"deliveries", "DELIVERY">>, <<"delivery", "DELIVERY">>,
       <<"delivered", "DELIVERY">>, <<"sales", "SALES">>, <<"sold", "SALES">>,
       <<"retail", "SALES">>, <<"wholesale", "WHOLESALE">>,
       <<"production", "PRODUCTION">>, <<"produced", "PRODUCTION">>,
       <<"output", "PRODUCTION">>, <<"battery", "BATTERY_INSTALL">>,
       <<"battery install", "BATTERY_INSTALL">>,
       <<"battery installation", "BATTERY_INSTALL">>, <<"gwh", "BATTERY_INSTALL">>,
       <<"exports", "EXPORTS">>, <<"export", "EXPORTS">>, <<"imports", "IMPORTS">>,
       <<"import", "IMPORTS">>, <<"registrations", "REGISTRATIONS">>,
       <<"license plate", "REGISTRATIONS">>, <<"inventory", "DEALER_INVENTORY">> >>

MONTH_NAMES ==
    << <<"jan", 1>>, <<"january", 1>>, <<"feb", 2>>, <<"february", 2>>,
       <<"mar", 3>>, <<"march", 3>>, <<"apr", 4>>, <<"april", 4>>, <<"may", 5>>,
       <<"jun", 6>>, <<"june", 6>>, <<"jul", 7>>, <<"july", 7>>, <<"aug", 8>>,
       <<"august", 8>>, <<"sep", 9>>, <<"sept", 9>>, <<"september", 9>>,
       <<"oct", 10>>, <<"october", 10>>, <<"nov", 11>>, <<"november", 11>>,
       <<"dec", 12>>, <<"december", 12>> >>

\* Index of the first entry of table whose key occurs in text, 0 if none.
FirstKey(table, text) ==
    IF \E k \in DOMAIN table : In(table[k][1], text)
    THEN CHOOSE k \in DOMAIN table :
             /\ In(table[k][1], text)
             /\ \A j \in 1..(k - 1) : ~In(table[j][1], text)
    ELSE 0

\* TitleParser._extract_brand: the keywords are tried longest first, sorted
\* keeping the order of the mapping among those of one length.
extract_brand(title_lower) ==
    LET found == {k \in DOMAIN BRAND_MAPPINGS : In(BRAND_MAPPINGS[k][1], title_lower)}
    IN  IF found = {} THEN None
        ELSE BRAND_MAPPINGS[CHOOSE k \in found : \A j \in found :
                 \/ Len(BRAND_MAPPINGS[j][1]) < Len(BRAND_MAPPINGS[k][1])
                 \/ (Len(BRAND_MAPPINGS[j][1]) = Len(BRAND_MAPPINGS[k][1]) /\ k <= j)][2]

\* TitleParser._extract_metric_type
extract_metric_type(title_lower) ==
    LET k == FirstKey(METRIC_KEYWORDS, title_lower)
    IN  IF k = 0 THEN None ELSE METRIC_KEYWORDS[k][2]

\* TitleParser._extract_value
parser_extract_value(title) ==
    LET numbers == findall_numbers(title, 1)
        floats == {float(Remove(numbers[k], ",")) : k \in DOMAIN numbers} \ {NoValue}
        change == \E kw \in {"%", "percent", "yoy", "mom"} : In(kw, lower(title))
        values == {v \in floats : ~(~AtLeast(v, 100) /\ change) /\ AtLeast(v, 100)}
    IN  IF values = {} THEN NoValue ELSE Max(values)

\* TitleParser.has_number: a number of at least 1000, or one written with
\* commas.
parser_has_number(title) ==
    LET numbers == findall_numbers(title, 1)
        Significant(num_str, value) ==
            value # NoValue /\ (AtLeast(value, 1000) \/ In(",", num_str))
    IN  \E k \in DOMAIN numbers :
            Significant(numbers[k], float(Remove(numbers[k], ",")))

\* A datetime, as far as it is read: year and month. NoDate is None; an int
\* that is None is 0 (no title of Titles names a year 0 or a month 0).
Date(year, month) == [year |-> year, month |-> month]
NoDate == Date(0, 0)

\* Position of the first match of q[1-4] in s, 0 if none.
QuarterAt(s) ==
    LET hits == {i \in 1..Len(s) : At(s, i) = "q" /\ At(s, i + 1) \in {"1", "2", "3", "4"}}
    IN  IF hits = {} THEN 0 ELSE CHOOSE i \in hits : \A j \in hits : i <= j

\* Position of the first occurrence of p in s (p occurs in s).
IndexOf(p, s) == CHOOSE i \in 1..Len(s) : StartsAt(s, i, p) /\ \A j \in 1..(i - 1) : ~StartsAt(s, j, p)

\* re.search(r'\b(20\d{2})\b', s): the digits of the first match, "" if none.
YearWord(s, third) ==
    LET hits == {i \in 1..Len(s) :
                    /\ StartsAt(s, i, "20")
                    /\ At(s, i + 2) \in third /\ At(s, i + 3) \in Digits
                    /\ At(s, i - 1) \notin WordChars /\ At(s, i + 4) \notin WordChars}
    IN  IF hits = {} THEN ""
        ELSE LET i == CHOOSE h \in hits : \A j \in hits : h <= j
             IN  SubSeq(s, i, i + 3)

Period(year, month, quarter, period_type) ==
    [year |-> year, month |-> month, quarter |-> quarter, period_type |-> period_type]

\* TitleParser._extract_period; now is datetime.now().
extract_period(title_lower, published_date, now) ==
    LET current_year == IF published_date # NoDate THEN published_date.year ELSE now.year
        q == QuarterAt(title_lower)
        m == FirstKey(MONTH_NAMES, title_lower)
        year_word == YearWord(title_lower, Digits)
    IN  IF q # 0
        THEN LET year_str == YearAfter(title_lower, q + 2)
             IN  Period(IF year_str # "" THEN YearOf(year_str) ELSE current_year,
                        0, DigitValue(At(title_lower, q + 1)), "QUARTERLY")
        ELSE IF m # 0
        THEN LET month_name == MONTH_NAMES[m][1]
                 year_str == YearAfter(title_lower,
                                       IndexOf(month_name, title_lower) + Len(month_name))
             IN  Period(IF year_str # "" THEN YearOf(year_str) ELSE current_year,
                        MONTH_NAMES[m][2], 0, "MONTHLY")
        ELSE IF year_word # ""
        THEN IF \E kw \in {"full year", "annual", "yearly", "fy "} : In(kw, title_lower)
             THEN Period(int(year_word), 0, 0, "YEARLY")
             ELSE IF published_date # NoDate
             THEN Period(int(year_word), published_date.month, 0, "MONTHLY")
             ELSE Period(int(year_word), 0, 0, "YEARLY")
        ELSE IF published_date # NoDate
        THEN Period(published_date.year, published_date.month, 0, "MONTHLY")
        ELSE Period(0, 0, 0, None)

\* ParsedMetric, as far as the extractor and the period are concerned: the
\* change percentages and the optional dimensions are left out.
NotParsed == [parsed |-> FALSE, brand |-> None, metric_type |-> None, value |-> NoValue,
              year |-> 0, month |-> 0, quarter |-> 0, period_type |-> None]

\* TitleParser.parse
parse(title, published_date, now) ==
    LET ParsedMetric(brand, metric_type, value, period) ==
            IF title = "" \/ brand = None \/ metric_type = None \/ value = NoValue
               \/ period.year = 0
            THEN NotParsed
            ELSE [parsed |-> TRUE, brand |-> brand, metric_type |-> metric_type,
                  value |-> value, year |-> period.year, month |-> period.month,
                  quarter |-> period.quarter, period_type |-> period.period_type]
    IN  ParsedMetric(extract_brand(lower(title)), extract_metric_type(lower(title)),
                     parser_extract_value(title),
                     extract_period(lower(title), published_date, now))


\* ----------------------------------------------- industry_extractor.py
\* The numeral of the leftmost match of (\d+(?:\.\d+)?)\s*unit in s, "" if
\* there is none; unit is matched as the caller's flags say (s is given in
\* lower case for re.IGNORECASE).
Numeral(s, i) ==
    LET w == Run(s, i, Digits)
        f == IF At(s, i + w) = "." THEN Run(s, i + w + 1, Digits) ELSE 0
    IN  IF w = 0 THEN "" ELSE SubSeq(s, i, i + w - 1 + (IF f > 0 THEN f + 1 ELSE 0))

NumberBefore(s, unit) ==
    LET Matches(i) == LET n == Numeral(s, i)
                      IN  /\ n # ""
                          /\ StartsAt(s, i + Len(n) + Run(s, i + Len(n), Space), unit)
        hits == {i \in 1..Len(s) : Matches(i)}
    IN  IF hits = {} THEN "" ELSE Numeral(s, CHOOSE i \in hits : \A j \in hits : i <= j)

\* _extract_value without the test for numbers that look like years.
ExtractValueKeepingYears(title, prefer_gwh) ==
    LET gwh == NumberBefore(lower(title), "gwh")
        million == NumberBefore(lower(title), "million")
        numbers == findall_numbers(title, 1)
        floats == {float(Remove(numbers[k], ",")) : k \in DOMAIN numbers} \ {NoValue}
        values == {val \in floats : AtLeast(val, 100)}
    IN  IF prefer_gwh /\ gwh # "" THEN float(gwh)
        ELSE IF million # "" THEN Million(float(million))
        ELSE IF values = {} THEN NoValue ELSE Max(values)

\* IndustryDataExtractor._extract_value
extract_value(title, prefer_gwh) ==
    LET gwh == NumberBefore(lower(title), "gwh")
        million == NumberBefore(lower(title), "million")
        numbers == findall_numbers(title, 1)
        floats == {float(Remove(numbers[k], ",")) : k \in DOMAIN numbers} \ {NoValue}
        values == {val \in floats :
                      AtLeast(val, 100) /\ ~(AtLeast(val, 2000) /\ AtMost(val, 2100))}
    IN  IF prefer_gwh /\ gwh # "" THEN float(gwh)
        ELSE IF million # "" THEN Million(float(million))
        ELSE IF values = {} THEN NoValue ELSE Max(values)

\* IndustryDataExtractor._extract_percentage
extract_percentage(title) ==
    LET match == NumberBefore(title, "%")
    IN  IF match # "" THEN float(match) ELSE NoValue

\* factor_pattern of _extract_dealer_inventory, (\d\.\d+): the float of the
\* leftmost match, NoValue if none.
extract_factor(title) ==
    LET hits == {i \in 1..Len(title) :
                    /\ At(title, i) \in Digits /\ At(title, i + 1) = "."
                    /\ At(title, i + 2) \in Digits}
    IN  IF hits = {} THEN NoValue
        ELSE LET i == CHOOSE h \in hits : \A j \in hits : h <= j
             IN  float(SubSeq(title, i, i + 1 + Run(title, i + 2, Digits)))

\* IndustryDataExtractor._extract_time_period: << year, month >>.
extract_time_period(title, published_date, now) ==
    LET title_lower == lower(title)
        current_year == IF published_date # NoDate THEN published_date.year ELSE now.year
        m == FirstKey(MONTH_NAMES, title_lower)
        month == IF m # 0 THEN MONTH_NAMES[m][2] ELSE 0
        year_word == YearWord(title, {"2", "3"})
        year == IF year_word # "" THEN int(year_word) ELSE 0
        ref_month == IF published_date # NoDate THEN published_date.month ELSE now.month
        year2 == IF month # 0 /\ year = 0
                 THEN (IF month > ref_month THEN current_year - 1 ELSE current_year)
                 ELSE year
        month2 == IF year2 # 0 /\ month = 0 /\ published_date # NoDate
                  THEN published_date.month ELSE month
        Period2(parsed) ==
            IF parsed.parsed THEN << parsed.year, parsed.month >> ELSE << year2, month2 >>
    IN  Period2(parse(title, published_date, now))

\* self._date_range_pattern.search, (?:(\w+)\s*)?(\d{1,2})[-/](\d{1,2}): a
\* match that starts at i with a group 1 of n characters (0: the group does
\* not take part) puts group 2 at Days(i, n); the search returns the
\* leftmost match, with the longest group 1, then the longest group 2, then
\* the longest group 3.
Days(s, i, n) == i + n + (IF n > 0 THEN Run(s, i + n, Space) ELSE 0)

DayLen(s, b) ==
    IF /\ At(s, b) \in Digits /\ At(s, b + 1) \in Digits
       /\ At(s, b + 2) \in {"-", "/"} /\ At(s, b + 3) \in Digits
    THEN 2
    ELSE IF At(s, b) \in Digits /\ At(s, b + 1) \in {"-", "/"} /\ At(s, b + 2) \in Digits
    THEN 1
    ELSE 0

NoRange == [found |-> FALSE, month_str |-> "", start_day |-> 0, end_day |-> 0]

date_range(s) ==
    LET Groups(i) == {n \in 0..Run(s, i, WordChars) : DayLen(s, Days(s, i, n)) > 0}
        hits == {i \in 1..Len(s) : Groups(i) # {}}
    IN  IF hits = {} THEN NoRange
        ELSE LET i == CHOOSE h \in hits : \A j \in hits : h <= j
                 n == CHOOSE g \in Groups(i) : \A k \in Groups(i) : k <= g
                 b == Days(s, i, n)
                 d == DayLen(s, b)
                 e == b + d + 1
             IN  [found |-> TRUE,
                  month_str |-> SubSeq(s, i, i + n - 1),
                  start_day |-> int(SubSeq(s, b, b + d - 1)),
                  end_day |-> int(SubSeq(s, e, IF At(s, e + 1) \in Digits THEN e + 1 ELSE e))]

\* f"{n:02d}" and the year of isoformat().
Digit(d) == SubSeq("0123456789", d + 1, d + 1)
Fmt2(n) == IF n < 10 THEN "0" \o Digit(n) ELSE Digit(n \div 10) \o Digit(n % 10)
Fmt4(n) == Fmt2(n \div 100) \o Fmt2(n % 100)

\* The entries of a dict the table extractors return; None is << >>. The
\* optional yoyChange and momChange entries are left out.
NoData == [k \in {} |-> None]

Monthly(title, published_date, now, value, value_field, unit) ==
    LET Data(period) ==
            IF period[1] = 0 \/ period[2] = 0 \/ value = NoValue
            THEN NoData
            ELSE ("year" :> period[1]) @@ ("month" :> period[2]) @@ (value_field :> value)
                     @@ ("unit" :> unit)
    IN  Data(extract_time_period(title, published_date, now))

extract_passenger_inventory(title, classification, published_date, now) ==
    Monthly(title, published_date, now, extract_value(title, FALSE), "value", "vehicles")

extract_battery_installation(title, classification, published_date, now) ==
    Monthly(title, published_date, now, extract_value(title, TRUE), "installation", "GWh")

extract_caam_nev_sales(title, classification, published_date, now) ==
    Monthly(title, published_date, now, extract_value(title, FALSE), "value", "vehicles")

extract_dealer_inventory(title, classification, published_date, now) ==
    Monthly(title, published_date, now, extract_factor(title), "value", "factor")

extract_cpca_nev_retail(title, classification, published_date, now) ==
    Monthly(title, published_date, now, extract_value(title, FALSE), "value", "vehicles")

extract_cpca_nev_production(title, classification, published_date, now) ==
    Monthly(title, published_date, now, extract_value(title, FALSE), "value", "vehicles")

extract_via_index(title, classification, published_date, now) ==
    Monthly(title, published_date, now, extract_percentage(title), "value", "percent")

\* IndustryDataExtractor.BATTERY_MAKERS and PLANTS
MAKER_NAMES ==
    << <<"catl", "CATL">>, <<"byd", "BYD">>, <<"lg", "LG Energy Solution">>,
       <<"lg energy", "LG Energy Solution">>, <<"sk", "SK On">>, <<"sk on", "SK On">>,
       <<"panasonic", "Panasonic">>, <<"calb", "CALB">>,
       <<"gotion", "Gotion High-Tech">>, <<"eve", "EVE Energy">>,
       <<"sunwoda", "Sunwoda">>, <<"svolt", "SVOLT">>, <<"samsung", "Samsung SDI">>,
       <<"farasis", "Farasis Energy">> >>

PLANTS ==
    << <<"shanghai", [plant |-> "Tesla Shanghai", brand |-> "Tesla"]>>,
       <<"giga shanghai", [plant |-> "Tesla Shanghai", brand |-> "Tesla"]>>,
       <<"tesla shanghai", [plant |-> "Tesla Shanghai", brand |-> "Tesla"]>>,
       <<"fremont", [plant |-> "Tesla Fremont", brand |-> "Tesla"]>>,
       <<"berlin", [plant |-> "Tesla Berlin", brand |-> "Tesla"]>>,
       <<"texas", [plant |-> "Tesla Texas", brand |-> "Tesla"]>>,
       <<"austin", [plant |-> "Tesla Texas", brand |-> "Tesla"]>>,
       <<"byd shenzhen", [plant |-> "BYD Shenzhen", brand |-> "BYD"]>>,
       <<"byd changsha", [plant |-> "BYD Changsha", brand |-> "BYD"]>> >>

extract_battery_maker_monthly(title, classification, published_date, now) ==
    LET given == IF "maker" \in DOMAIN classification.dimensions
                 THEN classification.dimensions.maker ELSE ""
        k == FirstKey(MAKER_NAMES, lower(IF given # "" THEN given ELSE title))
        maker == IF k # 0 THEN MAKER_NAMES[k][2] ELSE given
        Data(data) == IF data = NoData \/ maker = "" THEN NoData
                      ELSE ("maker" :> maker) @@ data
    IN  Data(Monthly(title, published_date, now, extract_value(title, TRUE),
                     "installation", "GWh"))

extract_plant_exports(title, classification, published_date, now) ==
    LET Data(k, data) ==
            IF data = NoData \/ k = 0 THEN NoData
            ELSE ("plant" :> PLANTS[k][2].plant) @@ ("brand" :> PLANTS[k][2].brand) @@ data
    IN  Data(FirstKey(PLANTS, lower(title)),
             Monthly(title, published_date, now, extract_value(title, FALSE),
                     "value", "vehicles"))

extract_nev_sales_summary(title, classification, published_date, now) ==
    LET Year(period) ==
            IF period[1] # 0 THEN period[1]
            ELSE IF published_date # NoDate THEN published_date.year ELSE now.year
        Named(month_str) == {k \in DOMAIN MONTH_NAMES : MONTH_NAMES[k][1] = month_str}
        Month1(period, named) ==
            IF named # {} THEN MONTH_NAMES[CHOOSE k \in named : TRUE][2] ELSE period[2]
        Month(month1) ==
            IF month1 # 0 THEN month1
            ELSE IF published_date # NoDate THEN published_date.month ELSE now.month
        Dates(year, month, match, value) ==
            IF ~match.found \/ value = NoValue THEN NoData
            ELSE [dataSource |-> "CPCA", year |-> year,
                  startDate |-> Fmt2(month) \o "-" \o Fmt2(match.start_day),
                  endDate |-> Fmt2(month) \o "-" \o Fmt2(match.end_day),
                  retailSales |-> value, unit |-> "vehicles"]
        Data(period, match, value) ==
            Dates(Year(period), Month(Month1(period, Named(lower(match.month_str)))),
                  match, value)
    IN  Data(extract_time_period(title, published_date, now), date_range(title),
             extract_value(title, FALSE))

extract_automaker_rankings(title, classification, published_date, now) ==
    LET Data(period) ==
            IF period[1] = 0 \/ period[2] = 0 THEN NoData
            ELSE ("_needs_ocr" :> TRUE) @@ ("_ocr_type" :> "rankings")
                     @@ [year |-> period[1], month |-> period[2], dataSource |-> "CPCA"]
    IN  Data(extract_time_period(title, published_date, now))

extract_battery_maker_rankings(title, classification, published_date, now) ==
    LET scope == IF "scope" \in DOMAIN classification.dimensions
                 THEN classification.dimensions.scope ELSE "CHINA"
        Data(period) ==
            IF period[1] = 0 THEN NoData
            ELSE ("_needs_ocr" :> TRUE) @@ ("_ocr_type" :> "rankings")
                     @@ [year |-> period[1], month |-> period[2],
                         dataSource |-> IF scope = "CHINA" THEN "CABIA" ELSE "SNE",
                         scope |-> scope]
    IN  Data(extract_time_period(title, published_date, now))

\* The tables extract has an extractor for.
Extractors ==
    {"ChinaPassengerInventory", "ChinaBatteryInstallation", "CaamNevSales",
     "ChinaDealerInventoryFactor", "CpcaNevRetail", "CpcaNevProduction", "ChinaViaIndex",
     "BatteryMakerMonthly", "PlantExports", "NevSalesSummary", "AutomakerRankings",
     "BatteryMakerRankings"}

Extractor(table, title, classification, published_date, now) ==
    CASE table = "ChinaPassengerInventory" ->
            extract_passenger_inventory(title, classification, published_date, now)
      [] table = "ChinaBatteryInstallation" ->
            extract_battery_installation(title, classification, published_date, now)
      [] table = "CaamNevSales" ->
            extract_caam_nev_sales(title, classification, published_date, now)
      [] table = "ChinaDealerInventoryFactor" ->
            extract_dealer_inventory(title, classification, published_date, now)
      [] table = "CpcaNevRetail" ->
            extract_cpca_nev_retail(title, classification, published_date, now)
      [] table = "CpcaNevProduction" ->
            extract_cpca_nev_production(title, classification, published_date, now)
      [] table = "ChinaViaIndex" ->
            extract_via_index(title, classification, published_date, now)
      [] table = "BatteryMakerMonthly" ->
            extract_battery_maker_monthly(title, classification, published_date, now)
      [] table = "PlantExports" ->
            extract_plant_exports(title, classification, published_date, now)
      [] table = "NevSalesSummary" ->
            extract_nev_sales_summary(title, classification, published_date, now)
      [] table = "AutomakerRankings" ->
            extract_automaker_rankings(title, classification, published_date, now)
      [] table = "BatteryMakerRankings" ->
            extract_battery_maker_rankings(title, classification, published_date, now)

\* ExtractionResult; returned is FALSE where extract returns None.
ExtractionResult(success, table_name, data) ==
    [returned |-> TRUE, success |-> success, table_name |-> table_name, data |-> data]

NoResult == [returned |-> FALSE, success |-> FALSE, table_name |-> None, data |-> NoData]

\* published_date.isoformat(), as far as year and month.
isoformat(d) == Fmt4(d.year) \o "-" \o Fmt2(d.month)

\* extract with the image URL entered whether or not one was supplied.
ExtractAlwaysImage(title, classification, source_url, source_title, image_url, published_date, now) ==
    IF classification.target_table = None \/ classification.target_table \notin Extractors
    THEN NoResult
    ELSE LET Result(data) ==
                 IF data = NoData
                 THEN ExtractionResult(FALSE, classification.target_table, NoData)
                 ELSE ExtractionResult(TRUE, classification.target_table,
                          ("imageUrl" :> image_url)
                          @@ (IF published_date # NoDate
                              THEN ("publishedAt" :> isoformat(published_date)) ELSE NoData)
                          @@ ("sourceUrl" :> source_url) @@ ("sourceTitle" :> source_title)
                          @@ data)
         IN  Result(Extractor(classification.target_table, title, classification,
                              published_date, now))

\* IndustryDataExtractor.extract; image_url is None or a URL. No extractor
\* raises on a title, so that the except clause is not entered.
extract(title, classification, source_url, source_title, image_url, published_date, now) ==
    IF classification.target_table = None \/ classification.target_table \notin Extractors
    THEN NoResult
    ELSE LET Result(data) ==
                 IF data = NoData
                 THEN ExtractionResult(FALSE, classification.target_table, NoData)
                 ELSE ExtractionResult(TRUE, classification.target_table,
                          (IF image_url # None THEN ("imageUrl" :> image_url) ELSE NoData)
                          @@ (IF published_date # NoDate
                              THEN ("publishedAt" :> isoformat(published_date)) ELSE NoData)
                          @@ ("sourceUrl" :> source_url) @@ ("sourceTitle" :> source_title)
                          @@ data)
         IN  Result(Extractor(classification.target_table, title, classification,
                              published_date, now))

\* ======================================================================
\* The extractors applied to one article, outside any backfill
\* ======================================================================
\* The variables of the backfill process, which the extractors never touch.
process == << args, site, run, file, checkpoint, pc, page, start_page, end_page,
              enable_ocr, processed_set, ocr_queue, current_batch, batch_num,
              tasks, ocr_tasks, stats, interrupted, late_interrupt, prior,
              fetched, handed, posted, submitted, classified, extracted,
              vision_log, pages_done, final_writes, delay >>

\* No backfill runs: the process variables keep the values of one start.
NoBackfill ==
    /\ Start
    /\ args = (CHOOSE c \in Configs : TRUE)
    /\ site = (CHOOSE s \in Sites : TRUE)

\* Titles in the style of the site (tests/test_cnevdata_real_titles.py,
\* tests/test_industry_extractor.py): a subject, the period it reports on,
\* and the headline figure.
Heads == {"BYD NEV sales", "CAAM NEV sales", "CPCA NEV retail sales",
          "China EV battery installations", "CATL battery installations",
          "SVOLT power battery installations in China",
          "CPCA top-selling automakers", "Top battery makers China",
          "China vehicle inventory alert index", "China dealer inventory factor",
          "Tesla Shanghai exports", "Random news"}

Periods == {"", " in Jan", " in Dec", " in Jan 2025", " in 2025", " Jan 1-18", " 1-18"}

Figures == {"", ": 420,398", ": 98.1 GWh", ": 1.2 million vehicles", " at 1.3125",
            " rises to 59.4%", ": 2050 and 350"}

\* Titles the test suites spell out.
Examples == {"CAAM NEV sales: 1.2 million vehicles in Jan 2025"}

Titles == {h \o p \o f : h \in Heads, p \in Periods, f \in Figures} \cup Examples

\* published_at of the article (absent, or a month of a year) and the month
\* datetime.now() falls in.
PublishDates == {NoDate, Date(2025, 1)}
Clocks == {Date(2026, 11)}
ImageUrls == {None, "https://cnevdata.com/chart.png"}

SourceUrl == "https://cnevdata.com/article"

TextInit ==
    /\ NoBackfill
    /\ input \in [title : Titles, published_date : PublishDates, now : Clocks,
                  image_url : ImageUrls]
    /\ output = [stage |-> "article"]

\* TitleParser.parse(title, published_date), as extract_metrics calls it.
Parse ==
    /\ output.stage = "article"
    /\ output' = [stage |-> "parsed",
                  parsed |-> parse(input.title, input.published_date, input.now)]
    /\ UNCHANGED << input, process >>

\* ArticleClassifier.classify(title, summary) with the empty summary of a
\* list page.
Classify ==
    /\ output.stage = "parsed"
    /\ output' = [stage |-> "classified",
                   classification |-> classify(input.title)] @@ output
    /\ UNCHANGED << input, process >>

\* IndustryDataExtractor.extract on the classification just made.
Extract ==
    /\ output.stage = "classified"
    /\ output' = [stage |-> "extracted",
                   result |-> extract(input.title, output.classification,
                                      SourceUrl, input.title, input.image_url,
                                      input.published_date, input.now)] @@ output
    /\ UNCHANGED << input, process >>

TextNext == Parse \/ Classify \/ Extract

TextSpec == TextInit /\ [][TextNext]_vars

\* ======================================================================
\* Claims about the extractors
\* ======================================================================
\* The months a title names, and whether it spells out a year (four digits
\* beginning with 20).
MonthsNamed(title) ==
    LET title_lower == lower(title)
        named == {k \in DOMAIN MONTH_NAMES : In(MONTH_NAMES[k][1], title_lower)}
    IN  {MONTH_NAMES[k][2] : k \in named}

NamesYear(title) ==
    \E i \in 1..Len(title) :
        /\ StartsAt(title, i, "20")
        /\ At(title, i + 2) \in Digits /\ At(title, i + 3) \in Digits

\* The year a month named without a year belongs to, for an article published
\* in month d.month of year d.year.
RolloverYear(m, d) == IF m > d.month THEN d.year - 1 ELSE d.year

\* C13: fiscal rollover. For every title that names a month m and no year,
\* published in month pm of year Y, the year resolved is Y - 1 when m > pm and
\* Y otherwise, both in the period TitleParser.parse produces and in the
\* period IndustryDataExtractor.extract puts into its result.
C13_FiscalRollover ==
    LET months == MonthsNamed(input.title)
        m == CHOOSE month \in months : TRUE
    IN  (/\ output.stage # "article"
         /\ input.published_date # NoDate
         /\ Cardinality(months) = 1
         /\ ~NamesYear(input.title))
        => /\ output.parsed.parsed
                  => output.parsed.year = RolloverYear(m, input.published_date)
           /\ (output.stage = "extracted" /\ output.result.success)
                  => output.result.data.year = RolloverYear(m, input.published_date)

\* C14: a title that names neither a month nor a year takes its whole period
\* from the publish date; without a publish date no period is resolved from
\* anywhere else and the extraction fails.
C14_FallBackToPublishDate ==
    (/\ output.stage = "extracted"
     /\ output.result.returned
     /\ MonthsNamed(input.title) = {}
     /\ ~NamesYear(input.title))
    => /\ input.published_date # NoDate
              => extract_time_period(input.title, input.published_date, input.now)
                     = << input.published_date.year, input.published_date.month >>
       /\ input.published_date = NoDate => ~output.result.success

\* ArticleType.
ArticleTypes ==
    {"CHINA_PASSENGER_INVENTORY", "CHINA_BATTERY_INSTALLATION", "CAAM_NEV_SALES",
     "CHINA_DEALER_INVENTORY_FACTOR", "CPCA_NEV_RETAIL", "CPCA_NEV_PRODUCTION",
     "CHINA_VIA_INDEX", "BATTERY_MAKER_MONTHLY", "PLANT_EXPORTS", "AUTOMAKER_RANKINGS",
     "BATTERY_MAKER_RANKINGS", "NEV_SALES_SUMMARY", "BRAND_METRIC", "MODEL_BREAKDOWN",
     "REGIONAL_DATA", "VEHICLE_SPEC", "SKIP"}

\* The pattern groups of classify in the order it tries them, each with its
\* category.
PatternGroups ==
    << << VIA_INDEX_PATTERNS, "CHINA_VIA_INDEX" >>,
       << DEALER_INVENTORY_PATTERNS, "CHINA_DEALER_INVENTORY_FACTOR" >>,
       << BATTERY_MAKER_RANKINGS_PATTERNS, "BATTERY_MAKER_RANKINGS" >>,
       << AUTOMAKER_RANKINGS_PATTERNS, "AUTOMAKER_RANKINGS" >>,
       << NEV_SALES_SUMMARY_PATTERNS, "NEV_SALES_SUMMARY" >>,
       << PLANT_EXPORTS_PATTERNS, "PLANT_EXPORTS" >>,
       << BATTERY_MAKER_MONTHLY_PATTERNS, "BATTERY_MAKER_MONTHLY" >>,
       << CHINA_BATTERY_PATTERNS, "CHINA_BATTERY_INSTALLATION" >>,
       << CAAM_PATTERNS, "CAAM_NEV_SALES" >>,
       << CPCA_PRODUCTION_PATTERNS, "CPCA_NEV_PRODUCTION" >>,
       << CPCA_RETAIL_PATTERNS, "CPCA_NEV_RETAIL" >>,
       << PASSENGER_INVENTORY_PATTERNS, "CHINA_PASSENGER_INVENTORY" >> >>

\* C15: classification is total with a stable precedence. Every title gets
\* exactly one article type; it is the category of the first pattern group, in
\* the fixed order, that matches; and a title with a battery maker's name and
\* the phrase "battery installations" goes to BatteryMakerMonthly, never to
\* ChinaBatteryInstallation.
C15_StablePrecedence ==
    output.stage \in {"classified", "extracted"} =>
        LET title_lower == lower(input.title)
            hits == {k \in DOMAIN PatternGroups : match_any(PatternGroups[k][1], title_lower)}
            first == CHOOSE k \in hits : \A j \in hits : k <= j
        IN  /\ output.classification.article_type \in ArticleTypes
            /\ hits # {} => output.classification.article_type = PatternGroups[first][2]
            /\ (/\ \E k \in DOMAIN BATTERY_MAKERS : In(BATTERY_MAKERS[k], title_lower)
                /\ In("battery installations", title_lower))
               => output.classification.target_table = "BatteryMakerMonthly"

\* The leaderboard categories and the industry categories of classify.
RankingTypes == {"AUTOMAKER_RANKINGS", "BATTERY_MAKER_RANKINGS"}
IndustryTypes == {PatternGroups[k][2] : k \in DOMAIN PatternGroups}

\* No pattern group and no keyword of classify applies to the title.
NoCategory(title_lower) ==
    /\ \A k \in DOMAIN PatternGroups : ~match_any(PatternGroups[k][1], title_lower)
    /\ \A kw \in SPEC_KEYWORDS \cup BREAKDOWN_KEYWORDS \cup SalesKeywords : ~In(kw, title_lower)
    /\ extract_region(title_lower) = None

\* C16: a title in a ranking category needs OCR whatever numbers it holds; a
\* title in any other industry category needs OCR exactly when it holds no
\* number of at least 1000 and no comma-grouped number; a title no category
\* matches is SKIP with no target table.
C16_NeedsOcr ==
    output.stage \in {"classified", "extracted"} =>
        /\ output.classification.article_type \in RankingTypes
              => output.classification.needs_ocr
        /\ output.classification.article_type \in IndustryTypes \ RankingTypes
              => output.classification.needs_ocr = ~parser_has_number(input.title)
        /\ NoCategory(lower(input.title))
              => /\ output.classification.article_type = "SKIP"
                 /\ output.classification.target_table = None

\* The fields an extractor's table requires, by kind: the value field, the
\* entity fields, and whether the month is a field of the table.
ValueFields(table) ==
    CASE table \in {"ChinaBatteryInstallation", "BatteryMakerMonthly"} -> {"installation"}
      [] table = "NevSalesSummary" -> {"retailSales"}
      [] table \in {"AutomakerRankings", "BatteryMakerRankings"} -> {}
      [] OTHER -> {"value"}

EntityFields(table) ==
    CASE table = "BatteryMakerMonthly" -> {"maker"}
      [] table = "PlantExports" -> {"plant", "brand"}
      [] table = "NevSalesSummary" -> {"startDate", "endDate"}
      [] OTHER -> {}

HasMonth(table) == table # "NevSalesSummary"

\* The common fields extract adds: the source always, the publish date and the
\* image URL exactly when they were supplied.
CommonFields(data) ==
    /\ "sourceUrl" \in DOMAIN data /\ data.sourceUrl = SourceUrl
    /\ "sourceTitle" \in DOMAIN data /\ data.sourceTitle = input.title
    /\ "publishedAt" \in DOMAIN data <=> input.published_date # NoDate
    /\ "imageUrl" \in DOMAIN data <=> input.image_url # None

\* The year, the value and the entity of a successful result are there and
\* not null.
RequiredFields(table, data) ==
    /\ "year" \in DOMAIN data /\ data.year # 0
    /\ \A f \in ValueFields(table) : f \in DOMAIN data /\ data[f] # NoValue
    /\ \A f \in EntityFields(table) : f \in DOMAIN data /\ data[f] \notin {"", None}

MonthPresent(table, data) ==
    HasMonth(table) => "month" \in DOMAIN data /\ data.month # 0

RawNumbers(title) ==
    LET numbers == findall_numbers(title, 1)
    IN  {float(Remove(numbers[k], ",")) : k \in DOMAIN numbers} \ {NoValue}

YearLike(v) == AtLeast(v, 2000) /\ AtMost(v, 2100)

Qualifying(title) == {v \in RawNumbers(title) : AtLeast(v, 100) /\ ~YearLike(v)}

\* The N of "<N> million" and of "<N> GWh" in a title, "" if there is none.
MillionOf(title) == NumberBefore(lower(title), "million")
GwhOf(title) == NumberBefore(lower(title), "gwh")

\* The tables whose value _extract_value supplies, and those of them that
\* ask it to prefer a GWh figure.
GwhTables == {"ChinaBatteryInstallation", "BatteryMakerMonthly"}
ValueTables ==
    GwhTables \cup {"ChinaPassengerInventory", "CaamNevSales", "CpcaNevRetail",
                    "CpcaNevProduction", "PlantExports", "NevSalesSummary"}

GPT4O_PRICING == [input |-> 250, output |-> 1000]

\* A cost in dollars is kept as an exact fraction; the denominator of a cost
\* in cents per million tokens is 100 * 1_000_000.
CentsPerDollar == 100
PerMillion == 1000000
Dollars(num, den) == [num |-> num, den |-> den]

\* Two candidate replacements of the functions below: the cost at the input
\* price for all tokens, and the unwrapping that takes the first recognised
\* key whatever its value.
CostAtInputPrice(input_tokens, output_tokens) ==
    Dollars((input_tokens + output_tokens) * GPT4O_PRICING.input,
            CentsPerDollar * PerMillion)

\* calculate_ocr_cost
calculate_ocr_cost(input_tokens, output_tokens) ==
    Dollars(input_tokens * GPT4O_PRICING.input + output_tokens * GPT4O_PRICING.output,
            CentsPerDollar * PerMillion)

\* A JSON value: a list of rows, or anything else (here a string).
JsonList(items) == [kind |-> "list", items |-> items]
JsonOther == [kind |-> "string", items |-> << >>]

\* The wrapper keys of _unwrap_data_array, in the order of its loop.
WrapperKeys == << "data", "results", "result", "rows", "entries", "rankings" >>

UnwrapFirstKey(parsed) ==
    LET found == {k \in DOMAIN WrapperKeys : WrapperKeys[k] \in DOMAIN parsed}
    IN  IF found = {} THEN JsonList(<< parsed >>)
        ELSE parsed[WrapperKeys[CHOOSE k \in found : \A j \in found : k <= j]]

\* _unwrap_data_array
unwrap_data_array(parsed) ==
    LET found == {k \in DOMAIN WrapperKeys :
                     /\ WrapperKeys[k] \in DOMAIN parsed
                     /\ parsed[WrapperKeys[k]].kind = "list"}
    IN  IF found = {} THEN JsonList(<< parsed >>)
        ELSE parsed[WrapperKeys[CHOOSE k \in found : \A j \in found : k <= j]]

\* OCRResult, as far as data, tokens and cost.
OCRResult(success, data, input_tokens, output_tokens, cost) ==
    [success |-> success, data |-> data, input_tokens |-> input_tokens,
     output_tokens |-> output_tokens, cost |-> cost]

\* ImageOCR.extract_from_url_sync on what the vision call does: it raises, or
\* it returns a response with a content (what json.loads makes of it: an
\* object, an array or a scalar value, or a JSONDecodeError) and a usage
\* (None, or the token counts).
extract_from_url_sync(response) ==
    IF response.raises
    THEN OCRResult(FALSE, JsonList(<< >>), 0, 0, Dollars(0, CentsPerDollar * PerMillion))
    ELSE LET input_tokens == IF response.usage.present
                             THEN response.usage.prompt_tokens ELSE 0
             output_tokens == IF response.usage.present
                              THEN response.usage.completion_tokens ELSE 0
             cost == calculate_ocr_cost(input_tokens, output_tokens)
         IN  IF response.content.kind = "invalid"
             THEN OCRResult(FALSE, JsonList(<< >>), input_tokens, output_tokens, cost)
             ELSE OCRResult(TRUE,
                            IF response.content.kind = "object"
                            THEN unwrap_data_array(response.content.object)
                            ELSE response.content.value,
                            input_tokens, output_tokens, cost)

\* ------------------------------------------------------ responses
\* Token counts of a response, zero included.
PromptTokens == {0, 1105}
CompletionTokens == {0, 300}

Usages ==
    {[present |-> FALSE, prompt_tokens |-> 0, completion_tokens |-> 0]}
        \cup [present : {TRUE}, prompt_tokens : PromptTokens,
              completion_tokens : CompletionTokens]

\* The rows of a list: as many as MaxRows, each naming the key they are under.
MaxRows == 1
Rows(key) == [r \in 1..MaxRows |-> [under |-> key]]

\* The values a key of a response object may have: a list of rows or
\* something else; "data" may also be the empty list.
JsonValues(key) ==
    {JsonList(Rows(key)), JsonOther} \cup (IF key = "data" THEN {JsonList(<< >>)} ELSE {})

\* The objects a response may hold: any of the wrapper keys and a key that is
\* none of them, each with one of its values.
ObjectKeys == {WrapperKeys[k] : k \in DOMAIN WrapperKeys} \cup {"brand"}

RECURSIVE ObjectsOver(_)
ObjectsOver(keys) ==
    IF keys = {} THEN {<< >>}
    ELSE LET key == CHOOSE k \in keys : TRUE
         IN  {(key :> v) @@ o : v \in JsonValues(key), o \in ObjectsOver(keys \ {key})}

Objects == UNION {ObjectsOver(keys) : keys \in SUBSET ObjectKeys}

Contents ==
    {[kind |-> "object", object |-> o, value |-> JsonOther] : o \in Objects}
        \cup {[kind |-> "array", object |-> << >>, value |-> JsonList(Rows(""))],
              [kind |-> "scalar", object |-> << >>, value |-> JsonOther],
              [kind |-> "invalid", object |-> << >>, value |-> JsonOther]}

Responses ==
    [raises : {FALSE}, content : Contents, usage : Usages]
        \cup {[raises |-> TRUE,
               content |-> [kind |-> "invalid", object |-> << >>, value |-> JsonOther],
               usage |-> [present |-> FALSE, prompt_tokens |-> 0, completion_tokens |-> 0]]}

OcrInit ==
    /\ NoBackfill
    /\ input \in Responses
    /\ output = [stage |-> "request"]

\* One call of extract_from_url_sync.
ExtractFromUrl ==
    /\ output.stage = "request"
    /\ output' = [stage |-> "result", result |-> extract_from_url_sync(input)]
    /\ UNCHANGED << input, process >>

OcrNext == ExtractFromUrl

OcrSpec == OcrInit /\ [][OcrNext]_vars

\* C19: for a JSON object the data of the result is the value of the first of
\* the keys data, results, result, rows, entries, rankings, in that order,
\* whose value is a list; a recognised key whose value is not a list is
\* passed over; an object with no such key becomes the one-element list of
\* the object itself.
C19_Unwrap ==
    (output.stage = "result" /\ ~input.raises /\ input.content.kind = "object")
    => LET parsed == input.content.object
           order == << "data", "results", "result", "rows", "entries", "rankings" >>
           IsList(k) == order[k] \in DOMAIN parsed /\ parsed[order[k]].kind = "list"
       IN  /\ output.result.success
           /\ \A k \in DOMAIN order :
                  (IsList(k) /\ \A j \in 1..(k - 1) : ~IsList(j))
                  => output.result.data = JsonList(parsed[order[k]].items)
           /\ (\A k \in DOMAIN order : ~IsList(k))
                 => output.result.data = JsonList(<< parsed >>)

C19_Witness ==
    /\ output.stage = "result"
    /\ ~input.raises
    /\ input.content.kind = "object"
    /\ {"data", "rows", "rankings"} \subseteq DOMAIN input.content.object
    /\ "results" \notin DOMAIN input.content.object
    /\ input.content.object["data"].kind # "list"
    /\ input.content.object["rows"].kind = "list"
    /\ input.content.object["rankings"].kind = "list"
    /\ output.result.data = JsonList(Rows("rows"))

\* C20: for all token counts, zero included, the cost is (input_tokens * 2.50
\* + output_tokens * 10.00) / 1,000,000 dollars exactly, and every result of
\* a completed vision call, a success or a JSON parse failure, carries the
\* cost of its own input_tokens and output_tokens.
C20_Cost ==
    (output.stage = "result" /\ ~input.raises)
    => /\ input.usage.present
             => /\ output.result.input_tokens = input.usage.prompt_tokens
                /\ output.result.output_tokens = input.usage.completion_tokens
       /\ output.result.cost.den = 100 * 1000000
       /\ output.result.cost.num
              = output.result.input_tokens * 250 + output.result.output_tokens * 1000

C20_Witness ==
    /\ output.stage = "result"
    /\ ~input.raises
    /\ input.content.kind = "invalid"
    /\ ~output.result.success
    /\ output.result.input_tokens = 1105
    /\ output.result.output_tokens = 300
    /\ output.result.cost = Dollars(576250, 100000000)

\* ======================================================================
\* api_client.py: one call of EVPlatformAPI.submit
\* ======================================================================
\* TABLE_TO_ENDPOINT
TABLE_TO_ENDPOINT ==
    [ChinaPassengerInventory |-> "china-passenger-inventory",
     ChinaBatteryInstallation |-> "china-battery-installation",
     CaamNevSales |-> "caam-nev-sales",
     ChinaDealerInventoryFactor |-> "china-dealer-inventory-factor",
     CpcaNevRetail |-> "cpca-nev-retail",
     CpcaNevProduction |-> "cpca-nev-production",
     ChinaViaIndex |-> "china-via-index",
     BatteryMakerMonthly |-> "battery-maker-monthly",
     PlantExports |-> "plant-exports",
     NevSalesSummary |-> "nev-sales-summary",
     AutomakerRankings |-> "automaker-rankings",
     BatteryMakerRankings |-> "battery-maker-rankings",
     NioPowerSnapshot |-> "nio-power-snapshot",
     EVMetric |-> "ev-metrics",
     VehicleSpec |-> "vehicle-specs"]

\* _get_endpoint; None where it raises ValueError.
get_endpoint(table_name) ==
    IF table_name \in DOMAIN TABLE_TO_ENDPOINT
    THEN "/api/" \o TABLE_TO_ENDPOINT[table_name]
    ELSE None

\* APIResponse, as far as success, status_code and error.
APIResponse(success, status_code, error) ==
    [success |-> success, status_code |-> status_code, error |-> error]

\* clean_data: the payload without the keys that start with "_".
clean_data(data) == [k \in {f \in DOMAIN data : ~StartsAt(f, 1, "_")} |-> data[k]]

\* EVPlatformAPI.submit, given what session.post does with the request (it
\* raises Timeout or another RequestException, or returns a response): the
\* APIResponse returned, and the requests that were posted.
submit(table_name, data, http) ==
    IF get_endpoint(table_name) = None
    THEN [response |-> APIResponse(FALSE, 0, "Unknown table: " \o table_name),
          requests |-> << >>]
    ELSE LET request == [endpoint |-> get_endpoint(table_name), json |-> clean_data(data)]
         IN  [response |->
                  CASE http.raises = "Timeout" -> APIResponse(FALSE, 0, "Request timeout")
                    [] http.raises = "ConnectionError" -> APIResponse(FALSE, 0, "Connection refused")
                    [] http.ok -> APIResponse(TRUE, http.status_code, None)
                    [] OTHER -> APIResponse(FALSE, http.status_code, http.text),
              requests |-> << request >>]

\* ------------------------------------------------------ calls
\* The payloads: each of these fields absent, None, or set.
PayloadFields == {"year", "month", "value", "sourceUrl", "sourceTitle", "_needs_ocr"}
Payloads == UNION {[fields -> {None, "set"}] : fields \in SUBSET PayloadFields}

\* A table of the industry endpoints, one of the older ones, one unknown.
SubmitTables == {"CaamNevSales", "EVMetric", "Unlisted"}

\* What session.post does.
HttpOutcomes ==
    {[raises |-> None, ok |-> TRUE, status_code |-> 200, text |-> "{}"],
     [raises |-> None, ok |-> FALSE, status_code |-> 400, text |-> "Bad Request"],
     [raises |-> "Timeout", ok |-> FALSE, status_code |-> 0, text |-> ""],
     [raises |-> "ConnectionError", ok |-> FALSE, status_code |-> 0, text |-> ""]}

ApiInit ==
    /\ NoBackfill
    /\ input \in [table_name : SubmitTables, data : Payloads, http : HttpOutcomes]
    /\ output = [stage |-> "call"]

\* One call of submit.
Submit ==
    /\ output.stage = "call"
    /\ output' = [stage |-> "response"] @@ submit(input.table_name, input.data, input.http)
    /\ UNCHANGED << input, process >>

ApiNext == Submit

ApiSpec == ApiInit /\ [][ApiNext]_vars

\* C21: for a table with declared required fields (CaamNevSales: year, month,
\* value, sourceUrl, sourceTitle), a payload in which a required field is
\* missing or None, the fields whose name starts with "_" left aside, is
\* answered with success = false, status_code 0 and an error that lists the
\* missing fields, and no HTTP request is made; a payload with all required
\* fields is posted.
C21_IncompleteRecordsRejected ==
    (output.stage = "response" /\ input.table_name = "CaamNevSales")
    => LET required == {"year", "month", "value", "sourceUrl", "sourceTitle"}
           missing == {f \in required :
                          f \notin DOMAIN input.data \/ input.data[f] = None}
       IN  /\ missing # {}
                 => /\ ~output.response.success
                    /\ output.response.status_code = 0
                    /\ \A f \in missing : In(f, output.response.error)
                    /\ output.requests = << >>
           /\ missing = {} => Len(output.requests) = 1

\* ======================================================================
\* The backfill again: checkpoints, statistics and the OCR queue
\* ======================================================================
\* C22: no partial checkpoint is ever observable: whenever the process has
\* ended, an interrupt or a kill in the middle of a checkpoint write
\* included, the checkpoint file holds a complete checkpoint (the previous
\* one or the new one), so that a run started with --resume never finds a
\* truncated or half-written file.
C22_NoPartialCheckpoint ==
    /\ pc = "exited" => file.st # "truncated"
    /\ (pc = "main" /\ args.resume) => file.st # "truncated"

\* ------------------------------------- a page that ends with an error
\* BackfillStats.add_error
add_error(s, error) == [s EXCEPT !.errors = Append(@, error)]

\* process_ocr_batch raises before any worker has started (executor.submit
\* raises RuntimeError when no new thread can be started, lines 335-344): the
\* exception leaves process_ocr_batch, line 544 is not reached, and the
\* handler of the page (lines 546-548) records the error; the loop goes on
\* with current_batch.append(page).
OcrBatchRaises ==
    /\ pc = "ocr"
    /\ \A i \in DOMAIN ocr_tasks : ocr_tasks[i].st = "pending"
    /\ ocr_tasks' = << >>
    /\ stats' = add_error(stats, [kind |-> "Page", id |-> page])
    /\ pc' = "page_end"
    /\ UNCHANGED << args, site, input, output, run, file, checkpoint, page, start_page,
                    end_page, enable_ocr, processed_set, ocr_queue, current_batch,
                    batch_num, tasks, interrupted, late_interrupt, ghost >>

\* The backfill where starting a thread may fail.
FaultNext == Next \/ OcrBatchRaises

FaultSpec == Init /\ [][FaultNext]_vars

\* C23: the OCR queue is page-scoped: the articles handed to the OCR batch of
\* a page are the articles queued while that page was processed, each once;
\* the queue is empty when the page ends and when the next page is fetched,
\* also after a page whose handling ended with an error; no queued article is
\* carried over into, or passed to the vision capability with, a later page.
C23_OcrQueuePageScoped ==
    /\ pc \in {"fetch", "page_end"} => ocr_queue = << >>
    /\ pc = "ocr"
          => /\ SeqToSet(ocr_queue) = {tasks[j].url : j \in {k \in DOMAIN tasks : tasks[k].res}}
             /\ Len(ocr_queue) = Cardinality({k \in DOMAIN tasks : tasks[k].res})
    /\ pc = "ocr"
          => \A i \in DOMAIN ocr_tasks :
                /\ ocr_tasks[i].page = page
                /\ \E j \in DOMAIN tasks :
                      tasks[j].url = ocr_tasks[i].url /\ tasks[j].page = page /\ tasks[j].res
    /\ \A a \in vision_log : \A b \in vision_log : a[2] = b[2] => a[1] = b[1]

\* ======================================================================
\* BackfillStats under its lock: the article workers of one page, then the
\* OCR phase of the page, one statement at a time
\* ======================================================================
\* The statements of a thread that touch the statistics or block: a call of
\* stats.increment, stats.increment_table or stats.add_error, or a blocking
\* call (an HTTP request, the wait for a future).
Inc(field, amount) == [op |-> "increment", field |-> field, amount |-> amount]
IncTable(table) == [op |-> "increment_table", field |-> table, amount |-> 1]
AddError(url) == [op |-> "add_error", field |-> "errors", amount |-> url]
Call(what) == [op |-> "call", field |-> what, amount |-> 0]

\* submit_metrics_to_api and lines 396-411 of process_single_article.
MetricsStatements(u, dry_run) ==
    IF ArticleTable[u].metrics = "none" THEN << >>
    ELSE << Inc("metrics_extracted", 1) >>
         \o (IF ArticleTable[u].metrics = "brand" /\ ~dry_run
             THEN << Call("httpx.post"),
                     Inc("metrics_submitted", IF ArticleTable[u].accept THEN 1 ELSE 0),
                     Inc("metrics_failed", IF ArticleTable[u].accept THEN 0 ELSE 1) >>
             ELSE << >>)

\* process_industry_data
IndustryStatements(u, dry_run) ==
    IF TargetTable(u) = None \/ ~IsIndustryTable(TargetTable(u)) THEN << >>
    ELSE << Inc("industry_classified", 1) >>
         \o (IF ArticleTable[u].extract \notin {"ok", "stub"} THEN << >>
             ELSE << Inc("industry_extracted", 1) >>
                  \o (IF ArticleTable[u].extract = "stub" \/ dry_run THEN << >>
                      ELSE << Call("api_client.submit") >>
                           \o (IF ArticleTable[u].accept
                               THEN << Inc("industry_submitted", 1),
                                       IncTable(TargetTable(u)) >>
                               ELSE << Inc("industry_failed", 1) >>)))

\* What process_industry_data returns.
IndustryExtracted(u, dry_run) ==
    process_industry_data(StatsInit, u, dry_run).out \in {"true", "table"}

\* process_single_article: when the article raises (at extract_metrics) the
\* handler of lines 436-439 records the error; else the statements of lines
\* 396-434.
ArticleStatements(u, raises, dry_run, ocr_on) ==
    IF raises THEN << AddError(u) >>
    ELSE MetricsStatements(u, dry_run)
         \o IndustryStatements(u, dry_run)
         \o (IF QueueForOcr(u, IndustryExtracted(u, dry_run), ocr_on)
             THEN << Inc("ocr_needed", 1) >> ELSE << >>)
         \o << Inc("articles_processed", 1) >>

\* The as_completed loop of process_ocr_batch for one article, lines 346-373.
OcrStatements(u, dry_run) ==
    << Call("future.result") >>
    \o (IF TrackUsage(OcrResult(u), dry_run) THEN << Call("track_ocr_usage") >> ELSE << >>)
    \o (IF OcrProcessed(OcrResult(u)) THEN << Inc("ocr_processed", 1) >> ELSE << >>)

\* The threads: the workers of the article pool and the main thread, which
\* goes through the OCR batch once the article pool has been left.
Workers == {"w1", "w2"}
Threads == Workers \cup {"main"}

Queued(inp, w) ==
    /\ ~inp.raises[w]
    /\ QueueForOcr(inp.articles[w], IndustryExtracted(inp.articles[w], inp.dry_run), TRUE)
    /\ OcrDataType(inp.articles[w]) \in OCR_ELIGIBLE_TYPES

Statements(inp, t) ==
    IF t \in Workers
    THEN ArticleStatements(inp.articles[t], inp.raises[t], inp.dry_run, TRUE)
    ELSE (IF Queued(inp, "w1") THEN OcrStatements(inp.articles["w1"], inp.dry_run) ELSE << >>)
         \o (IF Queued(inp, "w2") THEN OcrStatements(inp.articles["w2"], inp.dry_run) ELSE << >>)

\* threading.Lock: acquire returns when no thread holds the lock.
AcquireUnlocked(holder) == TRUE

acquire(holder) == holder = None

\* The counters as the threads have asked for them: every amount and every
\* error of a call that has begun.
Asked(s, statement) ==
    CASE statement.op = "increment" -> increment(s, statement.field, statement.amount)
      [] statement.op = "increment_table" -> increment_table(s, statement.field, statement.amount)
      [] statement.op = "add_error" -> add_error(s, [kind |-> "Article", id |-> statement.amount])
      [] OTHER -> s

Finished(t) == output.at[t] > Len(Statements(input, t))

Statement(t) == Statements(input, t)[output.at[t]]

\* A thread runs when it has a statement left; the main thread reaches the
\* OCR batch after the executor of the articles has been left.
Runs(t) ==
    /\ output.stage = "running"
    /\ ~Finished(t)
    /\ t = "main" => \A w \in Workers : Finished(w)

StatsRunInit ==
    /\ NoBackfill
    /\ input \in [articles : [Workers -> Urls], raises : [Workers -> BOOLEAN],
                  dry_run : BOOLEAN]
    /\ output = [stage |-> "running", lock |-> None, stats |-> StatsInit,
                 asked |-> StatsInit,
                 at |-> [t \in Threads |-> 1],
                 step |-> [t \in Threads |-> "idle"],
                 value |-> [t \in Threads |-> 0]]

\* with self._lock: the thread enters once it has acquired the lock.
Acquire ==
    \E t \in Threads :
        /\ Runs(t)
        /\ output.step[t] = "idle"
        /\ Statement(t).op # "call"
        /\ acquire(output.lock)
        /\ output' = [output EXCEPT !.lock = t, !.step[t] = "held",
                                    !.asked = Asked(@, Statement(t))]
        /\ UNCHANGED << input, process >>

\* getattr(self, field), or self.industry_by_table.get(table, 0).
Read ==
    \E t \in Threads :
        /\ Runs(t)
        /\ output.step[t] = "held"
        /\ output' = [output EXCEPT
                         !.step[t] = "read",
                         !.value[t] =
                             CASE Statement(t).op = "increment" ->
                                      output.stats[Statement(t).field]
                               [] Statement(t).op = "increment_table" ->
                                      output.stats.industry_by_table[Statement(t).field]
                               [] OTHER -> 0]
        /\ UNCHANGED << input, process >>

\* setattr(self, field, value + amount), the assignment to the table's count,
\* or self.errors.append(error); the with block is left and the lock released.
Write ==
    \E t \in Threads :
        /\ Runs(t)
        /\ output.step[t] = "read"
        /\ output' = [output EXCEPT
                         !.stats =
                             CASE Statement(t).op = "increment" ->
                                      [@ EXCEPT ![Statement(t).field] =
                                                    output.value[t] + Statement(t).amount]
                               [] Statement(t).op = "increment_table" ->
                                      [@ EXCEPT !.industry_by_table[Statement(t).field] =
                                                    output.value[t] + Statement(t).amount]
                               [] OTHER ->
                                      add_error(@, [kind |-> "Article",
                                                    id |-> Statement(t).amount]),
                         !.lock = None,
                         !.step[t] = "idle",
                         !.value[t] = 0,
                         !.at[t] = @ + 1]
        /\ UNCHANGED << input, process >>

\* A blocking call begins, and returns.
CallStart ==
    \E t \in Threads :
        /\ Runs(t)
        /\ output.step[t] = "idle"
        /\ Statement(t).op = "call"
        /\ output' = [output EXCEPT !.step[t] = "calling"]
        /\ UNCHANGED << input, process >>

CallReturn ==
    \E t \in Threads :
        /\ Runs(t)
        /\ output.step[t] = "calling"
        /\ output' = [output EXCEPT !.step[t] = "idle", !.at[t] = @ + 1]
        /\ UNCHANGED << input, process >>

StatsNext == Acquire \/ Read \/ Write \/ CallStart \/ CallReturn

StatsSpec == StatsRunInit /\ [][StatsNext]_vars

\* C24: under every interleaving of the article workers and the OCR phase,
\* each counter at the end equals the sum of the amounts of all increments
\* issued for it and every recorded error appears exactly once; every
\* mutation of the statistics is made by the thread that holds the one lock,
\* and no thread holds the lock during a blocking call.
C24_StatsSerialized ==
    output.stage = "running"
    => /\ (\A t \in Threads : Finished(t))
             => /\ output.stats = output.asked
                /\ \A w \in Workers :
                      input.raises[w]
                      => \E i \in DOMAIN output.stats.errors :
                            output.stats.errors[i].id = input.articles[w]
                /\ Len(output.stats.errors) = Cardinality({w \in Workers : input.raises[w]})
       /\ \A t \in Threads :
             /\ output.step[t] \in {"held", "read"} => output.lock = t
             /\ output.step[t] = "calling" => output.lock # t

\* Two workers at the same counter: one has read it inside the lock, the
\* other waits for the lock to increment it too, while the first counter of
\* both has been written.
C24_Witness ==
    /\ output.stage = "running"
    /\ output.lock = "w1"
    /\ output.step["w1"] = "read"
    /\ output.step["w2"] = "idle"
    /\ ~Finished("w2")
    /\ Statement("w2").op = "increment"
    /\ Statement("w2").field = Statement("w1").field
    /\ output.stats.industry_classified = 2

\* ----------------------------------------- the backfill, further claims
\* C25: no partial statistics are ever observable: whenever the summary is
\* produced, after an interrupt of the run included, industry_submitted
\* equals the sum of the counts of industry_by_table.
C25_NoPartialStats ==
    pc = "summary"
        => stats.industry_submitted = SumOver(stats.industry_by_table, IndustryTables)

Extra == 1

\* The runs: the number of URLs processed, URL k being the k-th processed.
ProcessedCounts == {0, 1, KeepLast - 1, KeepLast, KeepLast + Extra}

KeepInit ==
    /\ NoBackfill
    /\ input \in [processed : ProcessedCounts, last_page : Pages]
    /\ output = [stage |-> "save"]

\* save_checkpoint(last_page, list(processed_set))
SaveCheckpoint ==
    /\ output.stage = "save"
    /\ \E cp \in Checkpoints(input.last_page, 1..input.processed) :
          output' = [stage |-> "saved", checkpoint |-> cp]
    /\ UNCHANGED << input, process >>

KeepNext == SaveCheckpoint

KeepSpec == KeepInit /\ [][KeepNext]_vars

\* C27: every persisted checkpoint holds at most 1000 processed URLs, and
\* when more than 1000 URLs have been processed in the run, the URLs kept are
\* the 1000 most recently processed ones.
C27_KeepsMostRecent ==
    output.stage = "saved"
    => /\ Cardinality(output.checkpoint.processed_urls) <= 1000
       /\ input.processed > 1000
             => output.checkpoint.processed_urls = (input.processed - 999)..input.processed

\* The operator runs the script again without --resume, with the command
\* line of the first run.
RestartFresh ==
    /\ pc = "exited"
    /\ run < MaxRuns
    /\ run' = run + 1
    /\ args' = [args EXCEPT !.resume = FALSE]
    /\ pc' = "main"
    /\ late_interrupt' = FALSE
    /\ final_writes' = 0
    /\ UNCHANGED << site, input, output, file, checkpoint, page, start_page, end_page, enable_ocr,
                    processed_set, ocr_queue, current_batch, batch_num, tasks,
                    ocr_tasks, stats, interrupted, prior, fetched, handed, posted,
                    submitted, classified, extracted, vision_log, pages_done,
                    delay >>

\* The backfill where a re-run is made with or without --resume.
RerunNext == Next \/ RestartFresh

RerunSpec == Init /\ [][RerunNext]_vars

\* C28: with --resume the checkpoint is read once, at the start: if a
\* readable checkpoint exists the run covers exactly the pages last_page + 1
\* up to the configured total page count, and if the file is absent or cannot
\* be parsed the run starts at page 1; without --resume the checkpoint is not
\* read and the pages are those of --pages.
C28_ResumeFromCheckpoint ==
    [][/\ (pc = "main" /\ pc' # "main")
          => /\ (args.resume /\ file.st = "complete")
                   => /\ checkpoint' = file
                      /\ start_page' = file.last_page + 1
                      /\ end_page' = TotalPages
             /\ (args.resume /\ file.st # "complete")
                   => start_page' = 1 /\ end_page' = TotalPages
             /\ ~args.resume
                   => /\ checkpoint' = NoCheckpoint
                      /\ start_page' = args.pages[1]
                      /\ end_page' = args.pages[2]
       /\ (pc # "main" /\ pc' # "exited")
          => checkpoint' = checkpoint /\ start_page' = start_page /\ end_page' = end_page
       /\ (pc' = "summary" /\ interrupted' = None)
          => pages_done' = start_page'..end_page' /\ Len(fetched') = end_page' - start_page' + 1
      ]_vars

\* A resumed run after a run of page 1 alone: it has read the checkpoint of
\* that run and has covered page 2 up to the last page.
C28_Witness ==
    /\ run = 2
    /\ args.resume
    /\ pc = "summary"
    /\ interrupted = None
    /\ checkpoint.st = "complete"
    /\ checkpoint.last_page = 1
    /\ start_page = 2
    /\ pages_done = 2..TotalPages

\* C29: each of the four failure kinds that occurs for an article (the title
\* matches no category; the category matched and the fields could not be
\* extracted; the submission was rejected; the vision call failed or
\* returned no valid JSON) is converted into a counter increment or an error
\* entry of the statistics: the step in which the failure occurs changes the
\* statistics, so that the summary accounts for the article.
C29_FailuresAreCounted ==
    [][/\ \A i \in DOMAIN tasks \cap DOMAIN tasks' :
             (/\ tasks[i].st = "pending"
              /\ tasks'[i].st # "pending"
              /\ LET u == tasks[i].url
                 IN  \/ TargetTable(u) = None
                     \/ IsIndustryTable(TargetTable(u)) /\ ArticleTable[u].extract = "fail"
                     \/ /\ IsIndustryTable(TargetTable(u))
                        /\ ArticleTable[u].extract = "ok"
                        /\ ~args.dry_run
                        /\ ~ArticleTable[u].accept)
             => stats' # stats
       /\ \A i \in DOMAIN ocr_tasks \cap DOMAIN ocr_tasks' :
             (/\ ocr_tasks[i].st = "returned"
              /\ ocr_tasks'[i].st = "collected"
              /\ ~OcrResult(ocr_tasks[i].url).success)
             => stats' # stats
      ]_vars

\* C30: whenever the OCR router reports success, the rows it returns are a
\* flat list, whatever JSON value the vision capability returned (a wrapped
\* object, an unwrapped object, a bare array or a scalar); a response that is
\* not valid JSON yields success = false with an empty list of rows.
C30_SuccessMeansRowList ==
    output.stage = "result"
    => /\ output.result.success => output.result.data.kind = "list"
       /\ (~input.raises /\ input.content.kind = "invalid")
             => ~output.result.success /\ output.result.data = JsonList(<< >>)

====
